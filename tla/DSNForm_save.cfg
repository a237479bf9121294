CONSTANTS
    Vals <- MCVals
    Users <- MCUsers
    Decimal <- MCDecimal
    PortTexts <- MCPortTexts
    AttrMaps <- MCAttrMaps
    ProfileBase <- MCProfileBase
    MaxEdits = 2
INIT Init
NEXT Next
\* ShowDSNForm returns once the dialog is saved, cancelled or aborted.
CHECK_DEADLOCK FALSE
INVARIANT
    SavedConfigReadsBackAsShown
