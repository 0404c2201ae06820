\* One reply on either byte order, with data or NULL, every writev outcome
CONSTANTS
    Fields <- MCFields
    Payloads <- MCPayloads
    OtherVals <- MCOtherVals
    None = None
SPECIFICATION Spec
INVARIANT TypeOK
INVARIANT ReplyResultFaithful
\* ToClient is one call: the reply is sent and nothing follows
CHECK_DEADLOCK FALSE
