SPECIFICATION FreeSpec
CONSTANTS
    Aliases <- MCAliases
    Echoes <- MCEchoes
    SignatureWords <- MCSignatureWords
    Requests <- MCRequests
    Passthroughs <- MCPassthroughs
    Homes <- MCHomes
    Builds <- MCBuilds
    Transcripts <- MCTranscripts
    Messages <- MCMessages
    Omissions <- MCOmissions
    MaxUpgrades = 1
    Careful <- MCCareful
INVARIANT DriftIsARejection
CHECK_DEADLOCK FALSE
