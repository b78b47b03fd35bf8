\* Is an audit record given up only after the audit writer was asked to store it?
CONSTANTS
    Audits = {a1}
    Archives = {t1}
    Rowless = {}
    MaxSize = 2
    BatchSize = 2
SPECIFICATION QueueSpec
INVARIANT LostAuditsWereTried
