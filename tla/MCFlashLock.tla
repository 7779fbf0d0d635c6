----------------------------- MODULE MCFlashLock -----------------------------
\* Three words, of which the first and the last have interrupts enabled:
\* saved, empty and saved again, with a preemption between any two.
EXTENDS FlashLock

MCEnabled == {0, LastWord}
=============================================================================
