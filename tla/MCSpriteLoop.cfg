SPECIFICATION Spec
CONSTANTS
    Roms <- NoRoms
    Columns <- EdgeColumns
    Lines <- EdgeLines
    Sprites <- FewSprites
    Screens <- FewScreens
INVARIANTS
    PositionsAgree
    DrawsClosedForm
    WildWhenOutside
CHECK_DEADLOCK FALSE
