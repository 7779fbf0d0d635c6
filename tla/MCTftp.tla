-------------------------------- MODULE MCTftp --------------------------------
\* Small instances of Tftp: the values are in the .cfg files.
EXTENDS Tftp
=============================================================================
