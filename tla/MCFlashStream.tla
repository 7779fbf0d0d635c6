---------------------------- MODULE MCFlashStream ----------------------------
\* A small instance of FlashStream: the values are in the .cfg file.
EXTENDS FlashStream
=============================================================================
