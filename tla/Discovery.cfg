SPECIFICATION DiscoverySpec
CONSTANTS
    None = None
    Key = {"k1", "k2", "k3"}
    Known = {"k1", "k2"}
    OperatorId <- MCOperatorId
    KeyId <- MCKeyId
    Submission <- MCSubmission
    Title = {"1", "2"}
    Identifier = {}
    ServiceId = {"s1"}
    DescriptorId = {"d1"}
    Version = {1, 2, 3}
    Window <- MCWindow
    Class = {}
    Subject = {}
    Terms = {}
    Source = {}
    MaxLog = 4
INVARIANTS
    ServicesStaySigned
    DescriptorsReadBack
    CompleteDescriptorsVerify
CHECK_DEADLOCK FALSE
