\* Three uploads under way at a time, without a bound on their number.
CONSTANTS
    Admin = Admin
    s1 = s1
    s2 = s2
    s3 = s3
    c1 = c1
    k1 = k1
    k2 = k2
    e1 = e1
    e2 = e2
    e3 = e3
    Slots <- ThreeSlots
    CustomerIds <- OneCustomer
    Tickets <- TwoTickets
    Entries <- ThreeEntries
    Owner <- Owners
    TicketOf <- EntryTickets
    Author <- Authors
    MaxBytes = 2
    MaxAttachments = 2
    Quota = 3
SPECIFICATION UploadSpec
SYMMETRY SlotSymmetry
INVARIANTS
    UploadTypeOK
    LimitsNearlyKept
