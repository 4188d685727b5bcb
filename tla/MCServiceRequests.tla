------------------------- MODULE MCServiceRequests --------------------------
EXTENDS ServiceRequests, TLC

TwoStarts == [from : {0, 1}, until : {None}]
MCAsk == [service : ServiceId, number : {2, 3}, target : {None, 1},
          window : TwoStarts, status : {"active", "suspended"}]
=============================================================================
