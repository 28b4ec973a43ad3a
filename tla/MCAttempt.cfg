\* Two informational responses, so that a third is one too many, and three addresses in
\* each of the two races a proxy with credentials takes.
SPECIFICATION FairAttempt
CONSTANTS
  MaxInformational = 2
  Addresses = {a1, a2, a3}
  NoConn = NoConn
INVARIANTS OutcomeIsTrue ReplayIsSafe MeetsContract KeptIsClean OneOrNone
PROPERTIES ImplementsRaw SendReturns
