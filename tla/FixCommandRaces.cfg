\* Two files, every kind of symbol, an editor that saves one line, every fault.
SPECIFICATION Spec
CONSTANTS
    Files = {"a", "b"}
    Original <- MCOriginal
    Symbols <- MCSymbols
    SymbolFile <- MCSymbolFile
    SymbolLines <- MCSymbolLines
    RuleOf <- MCRuleOf
    RuleFilters = {AnyRule, "unused-import", "unused-function"}
    EditorLines = {99}
    Faults = {"analysis", "read", "open", "write", "crash"}
    AnyRule = AnyRule
INVARIANTS
    InnocentLinesSurvive
    SymbolsGoWhole
    ReportIsTruthful
    OneRunIsEnough
