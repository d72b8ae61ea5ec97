SPECIFICATION Spec
CONSTANTS
    None = None
    Annotations <- MCAnnotations
    Evaluations <- MCEvaluations
    Markdown <- MCMarkdown
    MaxSaves = 2
    PageSize = 1
    Decisions <- MCDecisions
INVARIANTS
    SavesStick
    CountsDescribeRows
    ImprovementsAreListed
    GapsAreShown
    SelectionsStartShort
