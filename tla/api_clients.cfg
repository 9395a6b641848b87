CONSTANTS
    BSON_ARRAY_SIZE = 1
    NumberTypes = {"int32"}
    Scalars = {"a"}
    MaxElements = 1
    MaxDocs = 2
    Workers = {w1, w2, w3}
    MinSizes = {0, 2}
    MaxSizes = {0, 1}
    DEFAULT_MIN_SIZE = 1
    DEFAULT_MAX_SIZE = 2
    MaxOps = 1
    POOL_SIZE = 3
    Programs = {"resp_mod", "preview", "my", "options_req", "get_req_mod", "resp_mod_null_body", "post_req_mod", "conn_pool"}
SPECIFICATION Spec
INVARIANTS
    MongoClientsKept
    IcapContextOutlivesReceiver
PROPERTIES
    BsonNothingLost
    BsonReadsBack
    MongoPopReturns
CHECK_DEADLOCK FALSE
