---------------------------- MODULE SolisHistory ----------------------------
(***************************************************************************)
(* SolisService with two history variables: how old what the bus shows is, *)
(* counted in polls, and whether anybody asked for another power limit.    *)
(* The driver keeps neither; it has error_count, from which it decides     *)
(* what is offline and when to quit, and the limits it compares.           *)
(***************************************************************************)
EXTENDS SolisService

VARIABLES
  age,    \* polls begun since the service was last brought up to date
  asked   \* since the program was started, a client or somebody at the panel
          \* has asked for a limit

historyVars == <<vars, age, asked>>

PollBegins == step = "idle" /\ step' = "refresh"
BusUpdated == step = "publish" /\ step' = "idle" /\ proc' = "running"

HistoryInit == Init /\ age = 0 /\ asked = FALSE

HistoryNext ==
  /\ Next
  /\ age' = IF BusUpdated \/ proc' = "down" THEN 0
            ELSE IF PollBegins THEN age + 1 ELSE age
  /\ asked' = (proc' # "down" /\ (asked \/ Request \/ ChangeLimit))

HistorySpec == HistoryInit /\ [][HistoryNext]_historyVars

-----------------------------------------------------------------------------
\* What the bus shows is never older than QuitAfter polls: either a poll
\* brings it up to date, or the service disappears.
StalenessBounded == age <= QuitAfter

\* Between two polls, the inverter counts as online exactly while fewer than
\* OfflineAfter polls have failed in a row, whatever happened before those.
OnlineIsHonest ==
  proc = "running" /\ step = "idle" => (online <=> age < OfflineAfter)

\* The driver by itself leaves the inverter's limit alone: until somebody asks
\* for another one, no start, poll, failure or exception writes to it.
LimitUntouched ==
  [][limitReg' # limitReg => asked' \/ ChangeLimit]_historyVars
=============================================================================
