\* One call of each data tool on each of its small inputs.
SPECIFICATION Spec
CONSTANTS
    none = none
    refused = refused
    Missing = none
    Refused = refused
    Tasks <- MCTasks
    CellCount = 2
    LegacyImages = 3
    RecaptureGroups <- MCRecaptureGroups
    WaveImages = 3
    WaveFails = 1
    DefectPlan <- MCDefectPlan
    DamagedCells = {2}
    CASES = 4
    CASES_PER_WAVE = 2
    AxisPlan <- MCAxisPlan
    AnnotatedAxis = "y"
    Porosity = 1
    DefectCases <- MCDefectCases
    CaptureFailCases <- MCCaptureFailCases
    AxisCounts <- MCAxisCounts
INVARIANTS
    RebalancedIsServed
    AnswersAreSpread
    AnalysesAddUp
    ReportNamesTheRequest
    BuiltManifestsLoad
    ReusedWhenExhausted
    DemoIsCalibrated
\* A call returns once.
CHECK_DEADLOCK FALSE
