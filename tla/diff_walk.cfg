SPECIFICATION Spec
CONSTANTS
    Fields = {"status", "price", "updated_at"}
    Ignored = {"updated_at"}
    Values = {"pending", "cancelled"}
    None = None
    NoDoc = NoDoc
INVARIANTS
    MergedIsExact
    PatchReaches
