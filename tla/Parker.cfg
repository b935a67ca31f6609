\* Three unparking threads: one finds PARKED, one finds NOTIFIED already there,
\* and a late notify of the third reaches a later park.
CONSTANTS
    Owner = owner
    Unparkers = {u1, u2, u3}
    NoThread = none
SPECIFICATION Spec
INVARIANTS NoLostWakeup
PROPERTIES WritesVisible RefinesToken
