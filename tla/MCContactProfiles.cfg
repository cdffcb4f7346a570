SPECIFICATION Spec
CONSTANTS
    Names = {n1}
    Subjects = {g1}
    NoName = NoName
    Devices = {"lid_device"}
    MaxInputs = 2
    MaxLookups = 1
    MaxWrites = 1
INVARIANTS
    ErasedStaysErased
    GroupChatShowsSubject
