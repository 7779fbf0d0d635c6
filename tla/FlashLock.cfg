CONSTANTS
    Tasks = {t1, t2, t3}
    NoTask = NoTask
    LastWord = 2
    Enabled <- MCEnabled
SPECIFICATION Spec
INVARIANTS
    TypeOK
    QuietWhileFlashBusy
    InterruptsComeBack
PROPERTY UsedByOne
