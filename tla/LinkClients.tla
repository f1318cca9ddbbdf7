---------------------------- MODULE LinkClients ----------------------------
(***************************************************************************)
(* The programs a person links a mailbox with: the terminal command, whose *)
(* loopback server catches the provider's redirect or which polls with a   *)
(* device code, the relay that forwards Apple's redirects to it, and the   *)
(* page of linked e-mails in the browser, which polls twice a click.       *)
(*                                                                         *)
(* What the API does with a callback or a poll is OAuthLinking's; here a   *)
(* flow is open, granted at the provider, linked or gone, and every call   *)
(* may fail.  Terminal and page belong to one account.                     *)
(*                                                                         *)
(* A definition marked faulty is used by no other: it is what a plausible  *)
(* bug would make of the definition it names.                              *)
(***************************************************************************)
EXTENDS Naturals

CONSTANTS
  Flows,  \* flows, each with its state or device code
  Ports,  \* ports of the local machine
  Rounds, \* 120 // interval
  Nil     \* None, null

ASSUME RoundsAssumption == Rounds \in Nat

VARIABLES
  flow,     \* each flow: its way back, the port in it, how far it is
  cmd,      \* the command in the terminal
  handler,  \* its server thread
  got,      \* the query of the request the thread answers
  heard,    \* _CallbackHandler: code, state
  received, \* the event
  linking,  \* the page: what the buttons wait for
  card,     \* the device code shown
  check     \* handlePoll: its step and the device code it was rendered with

terminal == <<cmd, handler, got, heard, received>>
page == <<linking, card, check>>
vars == <<flow, terminal, page>>

-----------------------------------------------------------------------------
\* A way stands for the providers that have it: Google and Meta redirect to the
\* local port, Apple by the relay, and Microsoft has device codes.
Ways == {"direct", "relay", "device"}

Flow == [way : Ways, port : Ports \cup {Nil},
         stage : {"asked", "open", "granted", "linked", "gone"}]

\* Nil is none of the values it stands in for.
ASSUME NilAssumption == Nil \notin Flows \cup Ports \cup Flow

Redirect == [code : Flows \cup {Nil}, state : Flows \cup {Nil}]
Nothing == [code |-> Nil, state |-> Nil]

Command == [at : {"idle", "initiate", "wait", "post", "askCode", "poll"},
            port : Ports \cup {Nil}, flow : Flows \cup {Nil}, rounds : 0 .. Rounds]
NoCommand == [at |-> "idle", port |-> Nil, flow |-> Nil, rounds |-> 0]

Check == [at : {"idle", "first", "timer", "second"}, code : Flows \cup {Nil}]
NoCheck == [at |-> "idle", code |-> Nil]

TypeOK ==
  /\ flow \in [Flows -> Flow \cup {Nil}]
  /\ cmd \in Command
  /\ handler \in {"off", "ready", "answering", "done"}
  /\ got \in Redirect
  /\ heard \in Redirect
  /\ received \in BOOLEAN
  /\ linking \in Ways \cup {Nil}
  /\ card \in Flows \cup {Nil}
  /\ check \in Check

Init ==
  /\ flow = [f \in Flows |-> Nil]
  /\ cmd = NoCommand
  /\ handler = "off"
  /\ got = Nothing
  /\ heard = Nothing
  /\ received = FALSE
  /\ linking = Nil
  /\ card = Nil
  /\ check = NoCheck

Is(f, stage) == flow[f] # Nil /\ flow[f].stage = stage
Becomes(f, stage) == flow' = [flow EXCEPT ![f] = [way |-> @.way, port |-> @.port, stage |-> stage]]

-----------------------------------------------------------------------------
(* accounthub email link, by a redirect                                    *)

\* The command ends, and its process with the server thread.
End == cmd' = NoCommand /\ handler' = "off" /\ UNCHANGED <<got, heard, received>>

Loopback(p) ==
  /\ cmd.at = "idle"
  /\ cmd' = [at |-> "initiate", port |-> p, flow |-> Nil, rounds |-> 0]
  /\ heard' = Nothing
  /\ received' = FALSE
  /\ handler' = "ready"
  /\ UNCHANGED <<flow, got, page>>

\* The browser is opened; what the server thread heard before counts, too.
OpenBrowser(f, way) ==
  /\ cmd.at = "initiate"
  /\ way # "device"
  /\ flow[f] = Nil
  /\ flow' = [flow EXCEPT ![f] = [way |-> way, port |-> cmd.port, stage |-> "open"]]
  /\ cmd' = [cmd EXCEPT !.at = "wait", !.flow = f]
  /\ UNCHANGED <<handler, got, heard, received, page>>

\* do_GET, for the one request that handle_request takes, whoever sends it.
\* Faulty Get: serve_forever.
GetAlways(code, state) ==
  /\ handler \in {"ready", "done"}
  /\ handler' = "answering"
  /\ got' = [code |-> code, state |-> state]
  /\ heard' = [heard EXCEPT !.code = code]
  /\ UNCHANGED <<flow, cmd, received, page>>
Get(code, state) ==
  /\ handler = "ready"
  /\ handler' = "answering"
  /\ got' = [code |-> code, state |-> state]
  /\ heard' = [heard EXCEPT !.code = code]
  /\ UNCHANGED <<flow, cmd, received, page>>

SetReceived ==
  /\ handler = "answering"
  /\ heard' = [heard EXCEPT !.state = got.state]
  /\ received' = TRUE
  /\ handler' = "done"
  /\ UNCHANGED <<flow, cmd, got, page>>

\* The relay passes on what has a code and a state with a port in it; a refusal
\* has no code.
Relayed(f, code) == flow[f].way = "relay" => code # Nil

\* The browser is sent to the port of a flow, perhaps one of an earlier command
\* that had the same port.
SendBack(f, code) ==
  /\ flow[f] # Nil
  /\ flow[f].way # "device"
  /\ flow[f].port = cmd.port
  /\ Relayed(f, code)
  /\ Get(code, f)

\* Any other request at the port: a favicon, a tab opened by hand.
Stray == Get(Nil, Nil)

\* Faulty TimeOut: wait has no timeout.
TimeOutNever == FALSE /\ UNCHANGED vars
TimeOut ==
  /\ cmd.at = "wait"
  /\ ~received
  /\ End
  /\ UNCHANGED <<flow, page>>

StopWaiting ==
  /\ cmd.at = "wait"
  /\ received
  /\ \/ heard.code = Nil /\ End
     \/ /\ heard.code # Nil
        /\ cmd' = [cmd EXCEPT !.at = "post"]
        /\ handler' = "off"
        /\ UNCHANGED <<got, heard, received>>
  /\ UNCHANGED <<flow, page>>

\* The state is there and unspent, for this provider, and the code belongs to it.
PostCallback ==
  /\ cmd.at = "post"
  /\ heard.state # Nil
  /\ heard.code = heard.state
  /\ Is(heard.state, "open")
  /\ flow[heard.state].way = flow[cmd.flow].way
  /\ Becomes(heard.state, "linked")
  /\ End
  /\ UNCHANGED page

\* Any other answer of a call, or none within the client's timeout.
CallFails ==
  /\ cmd.at \in {"initiate", "post", "askCode", "poll"}
  /\ End
  /\ UNCHANGED <<flow, page>>

-----------------------------------------------------------------------------
(* accounthub email link, by a device code                                 *)

DeviceCode ==
  /\ cmd.at = "idle"
  /\ cmd' = [NoCommand EXCEPT !.at = "askCode"]
  /\ UNCHANGED <<flow, handler, got, heard, received, page>>

ShowCode(f) ==
  /\ cmd.at = "askCode"
  /\ flow[f] = Nil
  /\ flow' = [flow EXCEPT ![f] = [way |-> "device", port |-> Nil, stage |-> "open"]]
  /\ cmd' = [at |-> "poll", port |-> Nil, flow |-> f, rounds |-> 0]
  /\ UNCHANGED <<handler, got, heard, received, page>>

\* A round sleeps and polls.
PollRound ==
  /\ cmd.at = "poll"
  /\ \/ /\ cmd.rounds < Rounds
        /\ Is(cmd.flow, "open")
        /\ cmd' = [cmd EXCEPT !.rounds = @ + 1]
        /\ UNCHANGED <<flow, handler, got, heard, received>>
     \/ /\ cmd.rounds < Rounds
        /\ Is(cmd.flow, "granted")
        /\ Becomes(cmd.flow, "linked")
        /\ End
     \/ /\ cmd.rounds = Rounds
        /\ End
        /\ UNCHANGED flow
  /\ UNCHANGED page

-----------------------------------------------------------------------------
(* The page: startLink                                                     *)

StartLink(f, way) ==
  /\ linking = Nil
  /\ flow[f] = Nil
  /\ flow' = [flow EXCEPT ![f] = [way |-> way, port |-> Nil, stage |-> "asked"]]
  /\ linking' = way
  /\ card' = Nil
  /\ UNCHANGED <<terminal, check>>

\* A device code is shown; a redirect goes to a window of its own and, as the
\* flow has no port, nowhere from there.
\* Faulty StartOk: the card gets the provider.
StartOkOfWay(f) ==
  /\ Is(f, "asked")
  /\ Becomes(f, "open")
  /\ \/ flow[f].way = "device" /\ card' = flow[f].way /\ UNCHANGED linking
     \/ flow[f].way # "device" /\ linking' = Nil /\ UNCHANGED card
  /\ UNCHANGED <<terminal, check>>
StartOk(f) ==
  /\ Is(f, "asked")
  /\ Becomes(f, "open")
  /\ \/ flow[f].way = "device" /\ card' = f /\ UNCHANGED linking
     \/ flow[f].way # "device" /\ linking' = Nil /\ UNCHANGED card
  /\ UNCHANGED <<terminal, check>>

\* Faulty StartFails: only the message is set.
StartFailsBusy(f) ==
  /\ Is(f, "asked")
  /\ Becomes(f, "gone")
  /\ UNCHANGED <<terminal, page>>
StartFails(f) ==
  /\ Is(f, "asked")
  /\ Becomes(f, "gone")
  /\ linking' = Nil
  /\ UNCHANGED <<terminal, card, check>>

Cancel ==
  /\ card # Nil
  /\ card' = Nil
  /\ linking' = Nil
  /\ UNCHANGED <<flow, terminal, check>>

-----------------------------------------------------------------------------
(* The page: handlePoll                                                    *)

\* The button is disabled while a check is under way.
CheckStatus ==
  /\ card # Nil
  /\ check.at = "idle"
  /\ check' = [at |-> "first", code |-> card]
  /\ UNCHANGED <<flow, terminal, linking, card>>

\* The timer's poll has the device code of the click, whatever is shown by now.
Timer ==
  /\ check.at = "timer"
  /\ check' = [check EXCEPT !.at = "second"]
  /\ UNCHANGED <<flow, terminal, linking, card>>

\* After the first poll a second is due unless it was successful.
AfterPoll == IF check.at = "first" THEN [check EXCEPT !.at = "timer"] ELSE NoCheck

PollPending ==
  /\ check.at \in {"first", "second"}
  /\ Is(check.code, "open")
  /\ check' = AfterPoll
  /\ UNCHANGED <<flow, terminal, linking, card>>

PollLinked ==
  /\ check.at \in {"first", "second"}
  /\ Is(check.code, "granted")
  /\ Becomes(check.code, "linked")
  /\ check' = NoCheck
  /\ card' = Nil
  /\ linking' = Nil
  /\ UNCHANGED terminal

PollFails ==
  /\ check.at \in {"first", "second"}
  /\ check' = AfterPoll
  /\ card' = Nil
  /\ linking' = Nil
  /\ UNCHANGED <<flow, terminal>>

-----------------------------------------------------------------------------
(* The provider.                                                           *)

\* The person types the device code in and consents.
Grant(f) ==
  /\ Is(f, "open")
  /\ flow[f].way = "device"
  /\ Becomes(f, "granted")
  /\ UNCHANGED <<terminal, page>>

\* The state or the device code expires.
Expire(f) ==
  /\ Is(f, "open") \/ Is(f, "granted")
  /\ Becomes(f, "gone")
  /\ UNCHANGED <<terminal, page>>

CommandStep ==
  \/ \E f \in Flows : (\E way \in Ways : OpenBrowser(f, way)) \/ ShowCode(f)
  \/ TimeOut
  \/ StopWaiting
  \/ PostCallback
  \/ CallFails
  \/ PollRound

StartStep(f) == StartOk(f) \/ StartFails(f)
CheckStep == Timer \/ PollPending \/ PollLinked \/ PollFails

Next ==
  \/ \E p \in Ports : Loopback(p)
  \/ DeviceCode
  \/ CommandStep
  \/ \E f \in Flows :
       \/ \E code \in {f, Nil} : SendBack(f, code)
       \/ \E way \in Ways : StartLink(f, way)
       \/ StartStep(f)
       \/ Grant(f)
       \/ Expire(f)
  \/ Stray
  \/ SetReceived
  \/ Cancel
  \/ CheckStatus
  \/ CheckStep

Spec == Init /\ [][Next]_vars

\* The client's calls and the wait have timeouts, the browser ends its calls,
\* and timers fire.
FairSpec ==
  /\ Spec
  /\ WF_vars(CommandStep)
  /\ WF_vars(CheckStep)
  /\ \A f \in Flows : WF_vars(StartStep(f))

-----------------------------------------------------------------------------
(* Properties.                                                             *)

\* The code and the state that the command hands in came in one request,
\* whatever else reached its port before, meanwhile or after (do_GET,
\* _loopback_flow): the API pairs the code with the verifier of that state.
PairFromOneRequest == cmd.at = "post" => heard = got /\ heard.code # Nil

\* The provider buttons of the page are disabled only while a start is under way
\* or a card with its Cancel is shown, also when a check of an earlier card, a
\* cancellation and several starts are answered out of order (startLink,
\* pollDeviceCode).
ButtonsComeBack ==
  linking # Nil => card # Nil \/ \E f \in Flows : Is(f, "asked")

\* Every command ends, also when nobody consents or something else uses up its
\* one request; every check ends, and the buttons do not wait for ever
\* (_loopback_flow, _device_code_flow, handlePoll, startLink).
ClientsSettle ==
  /\ []<>(cmd.at = "idle")
  /\ []<>(check.at = "idle")
  /\ []<>(linking = Nil \/ card # Nil)
=============================================================================
