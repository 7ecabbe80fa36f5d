----------------------------- MODULE RemoteClient -----------------------------
(***************************************************************************)
(* A client and the hosts it can address (remote/client.go, host.go, the   *)
(* identity ledger of corebackend.go).  Exchanges run without the client's *)
(* lock: the answer of one is taken in whatever happened in the meantime.  *)
(* One change carries an identity, so that its repetition runs it once.    *)
(***************************************************************************)
EXTENDS Naturals

CONSTANTS
  Machine,       \* hosts a client may link to
  Nobody,        \* no host
  Exchange,      \* goroutines that attach, call or refresh
  MaxSwitches,   \* bound: Detach and SwitchHost
  MaxExecutions  \* bound: executions of the change
ASSUME ClientAssumption == Machine # {} /\ Nobody \notin Machine /\ {MaxSwitches, MaxExecutions} \subseteq Nat

VARIABLES
  link, conn, auto, token, policyOf,  \* Client: link, state, auto, whose token, whose policies
  known, knownFresh,    \* lastKnown: whose view it is
  exchange,             \* each goroutine: what it does, and with whom
  looping, loop,        \* reconnector.running, and its goroutine
  executing, ran, recorded,  \* the change: executions under way, done; identityLedger.done
  switches, astrayed, overlaps, forgot  \* what explains an exception; see the property

linkVars   == <<link, conn, auto, token, policyOf, known, knownFresh>>
ledgerVars == <<executing, ran, recorded, overlaps, forgot>>
clientStateVars == <<linkVars, exchange, looping, loop, ledgerVars, switches, astrayed>>

\* What a goroutine does, with which host, and with whose token.
Exchanges(what, host, whose) == [does |-> what, with |-> host, as |-> whose]
AtRest == Exchanges("rest", Nobody, Nobody)
Waits  == Exchanges("wait", Nobody, Nobody)

ClientTypeOK ==
  /\ link \in Machine /\ token \in Machine \cup {Nobody} /\ known \in Machine \cup {Nobody}
  /\ conn \in {"detached", "attaching", "attached", "degraded", "reconnecting", "refused"}
  /\ {auto, knownFresh, looping, recorded, astrayed, overlaps, forgot} \subseteq BOOLEAN
  /\ policyOf \subseteq Machine
  /\ \A e \in Exchange \cup {"loop"} :
       LET x == IF e = "loop" THEN loop ELSE exchange[e] IN
       /\ x.does \in {"rest", "wait", "attach", "call", "refresh"}
       /\ {x.with, x.as} \subseteq Machine \cup {Nobody}
  /\ {executing, ran} \subseteq 0..MaxExecutions /\ switches \in 0..MaxSwitches

ClientInit ==
  /\ link = CHOOSE m \in Machine : TRUE
  /\ conn = "detached" /\ auto = FALSE /\ token = Nobody /\ policyOf = {}
  /\ known = Nobody /\ knownFresh = FALSE
  /\ exchange = [e \in Exchange |-> AtRest] /\ looping = FALSE /\ loop = AtRest
  /\ executing = 0 /\ ran = 0 /\ recorded = FALSE
  /\ switches = 0 /\ astrayed = FALSE /\ overlaps = FALSE /\ forgot = FALSE

-----------------------------------------------------------------------------
(* attach, by Attach, ReconnectNow or the reconnector                        *)

\* What an attach makes of its answer: the outcome is written unconditionally.
Welcomed(x) ==
  /\ token' = x.with /\ conn' = "attached" /\ knownFresh' = FALSE /\ policyOf' = policyOf \cup {x.with}
  /\ UNCHANGED <<link, auto, known>>
Refuses == conn' = "refused" /\ auto' = FALSE /\ UNCHANGED <<link, token, policyOf, known, knownFresh>>
Unreached(background) ==
  /\ conn' = IF auto \/ background THEN "reconnecting" ELSE "degraded"
  /\ UNCHANGED <<link, auto, token, policyOf, known, knownFresh>>
Attaching ==
  conn' = "attaching" /\ UNCHANGED <<link, auto, token, policyOf, known, knownFresh>>
NoCredentials ==
  conn' = "detached" /\ UNCHANGED <<link, auto, token, policyOf, known, knownFresh>>

BeginAttach(e) ==
  /\ exchange[e] = AtRest
  /\ exchange' = [exchange EXCEPT ![e] = Exchanges("attach", link, link)]
  /\ Attaching /\ UNCHANGED <<looping, loop, ledgerVars, switches, astrayed>>
EndAttach(e) ==
  /\ exchange[e].does = "attach" /\ exchange' = [exchange EXCEPT ![e] = AtRest]
  /\ Welcomed(exchange[e]) \/ Refuses \/ Unreached(FALSE) \/ NoCredentials
  /\ UNCHANGED <<looping, loop, ledgerVars, switches, astrayed>>

LoopDials ==
  /\ loop.does = "wait" /\ looping /\ loop' = Exchanges("attach", link, link)
  /\ Attaching /\ UNCHANGED <<exchange, looping, ledgerVars, switches, astrayed>>
\* The loop ends when it is answered, and counts as running from then on.
LoopIsAnswered ==
  /\ loop.does = "attach"
  /\ \/ (Welcomed(loop) \/ Refuses) /\ loop' = AtRest
     \/ (Unreached(TRUE) \/ NoCredentials) /\ loop' = Waits
  /\ UNCHANGED <<exchange, looping, ledgerVars, switches, astrayed>>
LoopStops ==
  /\ loop.does = "wait" /\ ~looping /\ loop' = AtRest
  /\ UNCHANGED <<linkVars, exchange, looping, ledgerVars, switches, astrayed>>
EnableAutoReconnect(on) ==
  /\ auto # on /\ auto' = on
  /\ looping' = on
  /\ IF on /\ ~looping THEN loop = AtRest /\ loop' = Waits
                       ELSE UNCHANGED loop
  /\ UNCHANGED <<link, conn, token, policyOf, known, knownFresh, exchange, ledgerVars, switches, astrayed>>

-----------------------------------------------------------------------------
(* Call and Refresh; a call is the change, the host executes it              *)

MayCall == conn \notin {"detached", "refused"}
BeginCall(e, what) ==
  /\ exchange[e] = AtRest /\ MayCall
  /\ exchange' = [exchange EXCEPT ![e] = Exchanges(what, link, token)]
  /\ UNCHANGED <<linkVars, looping, loop, ledgerVars, switches, astrayed>>

Authenticated(x) == x.as = x.with
\* serveCall and identityLedger.submit: a recorded result is given again.
\* Mutant of Record: the result is not kept.
RecordNothing == UNCHANGED recorded
Record == recorded' = TRUE
ExecuteChange(e) ==
  /\ exchange[e].does = "call" /\ Authenticated(exchange[e]) /\ ~recorded /\ executing + ran < MaxExecutions
  /\ executing' = executing + 1 /\ overlaps' = (overlaps \/ executing > 0)
  /\ UNCHANGED <<linkVars, exchange, looping, loop, ran, recorded, forgot, switches, astrayed>>
ExecutionSucceeds ==
  /\ executing > 0 /\ executing' = executing - 1 /\ ran' = ran + 1
  /\ Record
  /\ UNCHANGED <<linkVars, exchange, looping, loop, overlaps, forgot, switches, astrayed>>
ExecutionFails ==
  /\ executing > 0 /\ executing' = executing - 1
  /\ UNCHANGED <<linkVars, exchange, looping, loop, ran, recorded, overlaps, forgot, switches, astrayed>>
\* The ledger is in memory.
LedgerLost ==
  /\ executing = 0 /\ recorded /\ recorded' = FALSE /\ forgot' = TRUE
  /\ UNCHANGED <<linkVars, exchange, looping, loop, executing, ran, overlaps, switches, astrayed>>

EndCall(e) ==
  /\ exchange[e].does \in {"call", "refresh"} /\ exchange' = [exchange EXCEPT ![e] = AtRest]
  /\ \* noteTransportFailure: also when the host has executed the call.
     \/ Unreached(FALSE)
     \/ Refuses
     \* noteWireError: a refused method updates the policy, another error nothing.
     \/ Authenticated(exchange[e]) /\ UNCHANGED linkVars
     \/ /\ Authenticated(exchange[e]) /\ (exchange[e].does = "call" => recorded)
        /\ conn' = IF conn \in {"reconnecting", "degraded"} THEN "attached" ELSE conn
        /\ IF exchange[e].does = "refresh" THEN known' = exchange[e].with /\ knownFresh' = TRUE
                                           ELSE UNCHANGED <<known, knownFresh>>
        /\ UNCHANGED <<link, auto, token, policyOf>>
  /\ UNCHANGED <<looping, loop, ledgerVars, switches, astrayed>>

-----------------------------------------------------------------------------
(* Detach and SwitchHost                                                     *)

UnderWay == loop.does = "attach" \/ \E e \in Exchange : exchange[e] # AtRest
\* Detach forgets the view, stops the loop, and leaves what is under way.
LetGo(to) ==
  /\ switches < MaxSwitches /\ switches' = switches + 1
  /\ conn' = "detached" /\ auto' = FALSE /\ token' = Nobody /\ known' = Nobody /\ knownFresh' = FALSE
  /\ looping' = FALSE
  /\ link' = to /\ policyOf' = IF to = link THEN policyOf ELSE {}
  /\ astrayed' = (astrayed \/ UnderWay)
  /\ UNCHANGED <<exchange, loop, ledgerVars>>
Detach == LetGo(link)
SwitchHost(m) == m # link /\ LetGo(m)

\* Once an exception of the property is met there is nothing more to say.
ClientNext ==
  /\ ~astrayed /\ ~overlaps
  /\ \/ \E e \in Exchange :
          \/ BeginAttach(e) \/ EndAttach(e) \/ ExecuteChange(e) \/ EndCall(e)
          \/ \E what \in {"call", "refresh"} : BeginCall(e, what)
     \/ LoopDials \/ LoopIsAnswered \/ LoopStops
     \/ \E on \in BOOLEAN : EnableAutoReconnect(on)
     \/ ExecutionSucceeds \/ ExecutionFails \/ LedgerLost
     \/ Detach \/ \E m \in Machine : SwitchHost(m)
ClientSpec == ClientInit /\ [][ClientNext]_clientStateVars

-----------------------------------------------------------------------------
\* The view, the token and the policies a client holds are those of the host
\* it is linked to, and a change with an identity is done once however often
\* it is sent (SwitchHost: sessions of the old host never appear beside those
\* of the new; identityLedger: the same transition, no second one).  Outside
\* of this are an exchange under way when the client lets its host go, two
\* executions at once, and a host that has restarted.
HoldsWhatItsHostSaid ==
  /\ ~astrayed => /\ known \in {link, Nobody} /\ policyOf \subseteq {link}
                  /\ token \in {link, Nobody}
                  /\ conn = "attached" => token = link
  /\ ran > 1 => overlaps \/ forgot
=============================================================================
