SPECIFICATION Spec
CONSTANTS
    i1 = i1 i2 = i2 s1 = s1 s2 = s2
    capture = capture webhook = webhook resync = resync callback = callback
    delete = delete refund = refund grace = grace flip = flip
    Invoices = {i1, i2}
    Services = {s1, s2}
    Premium = {s1}
    Lists <- Shared
    Calls = {capture, webhook, resync, callback, delete, refund, grace, flip}
    Scenarios <- MCScenarios
    KindOf <- MCKindOf
    InvoiceOf <- MCInvoiceOf
    MaxMishaps = 2
INVARIANTS NoLostActivation NothingWithoutPayment
PROPERTIES CallsEnd PaidGetsJobs
