\* Two files of two and three lines, two runs, two commits of other processes.
SPECIFICATION ImportSpec
CONSTANTS
    ann = ann
    zed = zed
    zoe = zoe
    open = open
    old = old
    new = new
    Blank = Blank
    People = {ann, zed, zoe}
    Labels = {open, old, new}
    Slug <- MCSlug
    Specs <- MCSpecs
    Csvs <- MCCsvs
    InitialDb <- MCDb
    MaxRuns = 2
    MaxWrites = 2
CHECK_DEADLOCK FALSE
INVARIANTS
    NothingLeftBehind
    SummaryIsTrue
PROPERTIES
    DryRunPredicts
    CreatedSoundly
