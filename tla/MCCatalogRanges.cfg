SPECIFICATION PartsSpec
CONSTANTS
    NProducts = 3
    NCategories = 2
    Parent <- MCParent
    Colours = {"red", "black"}
    MaxWidth = 2
    Catalogues <- MCCatalogues
    Stocks <- MCStocks
    Limit = 1
    MaxName = 2
    MaxEdits = 1
    Walks <- MCWalks
    Attributes = {"spec", "note"}
    DataTypes <- MCDataTypes
    Places = {"whole", "v1", "v2"}
    Whole = "whole"
    Bindings <- MCBindings
    Unbound = Unbound
    Ids = {1, 2}
    Tokens = {"20", "av"}
    Labels = {"20 inch", "A/V"}
    Forms <- MCForms
    Json <- MCJson
    Cells <- MCCells
    Filters <- MCFilters
    UnitForms <- MCUnitForms
    Units <- MCUnits
    Numbers <- MCNumbers
INVARIANTS RangesAreObserved
CHECK_DEADLOCK FALSE
