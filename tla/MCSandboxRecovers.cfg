SPECIFICATION Spec
CONSTANTS
    SrcRows = {1, 2, 3}
    SrcMaxTick = 3
    SrcMaxReads = 2
    SrcPageSize = 1
    SrcSnowflakePage = 2
    SrcKinds = {"salesforce", "hubspot", "intercom", "gong", "zendesk", "chorus",
                "snowflake", "snowflakeFull", "bigquery", "s3", "zoom", "zoomSub",
                "zendeskFull", "intercomScroll", "intercomList", "gongGet",
                "hubspotList"}
    DstInputs <- MCInputs
    DstMaxCalls = 2
    DstBatch = 2
    DstBulk = 2
    DstMaxRetries = 1
    DstMaxSecond = 2
    DstKinds = {"salesforce", "hubspot", "zendesk", "intercom", "intercomItem",
                "snowflake", "bigquery", "s3"}
    RtKinds = {"read", "write"}
    RtMessages <- MCMessages
    RtCapacity = 1
    RtMaxRecords = 2
    MhProcs = {p1, p2}
    MhBatchSize = 2
    MhTimed = TRUE
    MhMaxRecords = 5
    MhMaxTimers = 3
INVARIANTS
    SandboxRecovers
CHECK_DEADLOCK FALSE
