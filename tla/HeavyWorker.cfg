\* Three handles, two works, two client threads besides the worker itself.
SPECIFICATION Spec
CONSTANTS
  NHandles = 3
  Works = {w1, w2}
  NoWork = NoWork
  Clients = {input, timer}
  Self = worker
INVARIANT TypeOK
INVARIANT NoLostSubmission
INVARIANT NoLostWakeup
PROPERTY NoCreateDuringWalk
PROPERTY ImplementsWorkMailbox
PROPERTY ServesEveryHandle
