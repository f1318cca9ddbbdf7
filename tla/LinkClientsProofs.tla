-------------------------- MODULE LinkClientsProofs --------------------------
(***************************************************************************)
(* Proofs about LinkClients for any flows, ports and number of rounds.     *)
(***************************************************************************)
EXTENDS LinkClients, TLAPS

\* The server thread hears one request and sets the event after it has its code
\* and its state.  It takes no second one, and the command only believes it once
\* the event is set.
HeardOK ==
  /\ handler = "answering" => heard.code = got.code
  /\ received => heard = got /\ handler \in {"done", "off"}
  /\ cmd.at = "post" => received /\ heard.code # Nil

\* A command that has a flow was shown it.
CInv ==
  /\ TypeOK
  /\ cmd.at \in {"wait", "post", "poll"} => cmd.flow \in Flows
  /\ check.at # "idle" => check.code \in Flows
  /\ HeardOK

-----------------------------------------------------------------------------
LEMMA InitCInv == Init => CInv
  <1> SUFFICES ASSUME Init PROVE CInv
    OBVIOUS
  <1>1. NoCommand \in Command /\ NoCommand.at = "idle"
    BY RoundsAssumption DEF NoCommand, Command
  <1>2. NoCheck \in Check /\ NoCheck.at = "idle" /\ Nothing \in Redirect
    BY DEF NoCheck, Check, Nothing, Redirect
  <1>3. TypeOK
    BY <1>1, <1>2 DEF Init, TypeOK
  <1> QED
    BY <1>1, <1>2, <1>3 DEF Init, CInv, HeardOK

LEMMA BecomesType ==
  ASSUME TypeOK, NEW f \in Flows, flow[f] # Nil, NEW stage \in {"asked", "open", "granted", "linked", "gone"},
         Becomes(f, stage)
  PROVE  flow' \in [Flows -> Flow \cup {Nil}]
  <1> DEFINE new == [way |-> flow[f].way, port |-> flow[f].port, stage |-> stage]
  <1>1. flow[f] \in Flow
    BY DEF TypeOK
  <1>2. new \in Flow
    BY <1>1 DEF Flow
  <1>3. flow' = [flow EXCEPT ![f] = new]
    BY DEF Becomes
  <1> HIDE DEF new
  <1> QED
    BY <1>2, <1>3 DEF TypeOK

\* A new flow.
LEMMA NewFlow ==
  ASSUME TypeOK, NEW f \in Flows, NEW way \in Ways, NEW p \in Ports \cup {Nil}, NEW stage \in {"asked", "open"},
         flow' = [flow EXCEPT ![f] = [way |-> way, port |-> p, stage |-> stage]]
  PROVE  flow' \in [Flows -> Flow \cup {Nil}]
  <1> DEFINE new == [way |-> way, port |-> p, stage |-> stage]
  <1>1. new \in Flow
    BY DEF Flow
  <1> HIDE DEF new
  <1> QED
    BY <1>1 DEF TypeOK, new

LEMMA EndCInv ==
  ASSUME CInv, End, flow' \in [Flows -> Flow \cup {Nil}], UNCHANGED page
  PROVE  CInv'
  BY RoundsAssumption DEF End, CInv, TypeOK, HeardOK, NoCommand, Command, page

LEMMA GetCInv ==
  ASSUME CInv, NEW code \in Flows \cup {Nil}, NEW state \in Flows \cup {Nil}, Get(code, state)
  PROVE  CInv'
  BY DEF Get, CInv, TypeOK, HeardOK, Redirect, page

LEMMA TerminalCInv ==
  ASSUME CInv,
         \/ \E p \in Ports : Loopback(p)
         \/ \E f \in Flows : (\E way \in Ways : OpenBrowser(f, way)) \/ ShowCode(f)
         \/ DeviceCode \/ SetReceived \/ TimeOut \/ StopWaiting \/ PostCallback \/ CallFails \/ PollRound
  PROVE  CInv'
  <1>1. ASSUME NEW p \in Ports, Loopback(p) PROVE CInv'
    <2>1. cmd' \in Command /\ cmd'.at = "initiate"
      BY <1>1, RoundsAssumption DEF Loopback, Command
    <2>2. Nothing \in Redirect
      BY DEF Nothing, Redirect
    <2> QED
      BY <1>1, <2>1, <2>2 DEF Loopback, CInv, TypeOK, HeardOK, page
  <1>2. ASSUME NEW f \in Flows, NEW way \in Ways, OpenBrowser(f, way) PROVE CInv'
    <2>1. cmd.port \in Ports \cup {Nil}
      BY DEF CInv, TypeOK, Command
    <2>2. flow' \in [Flows -> Flow \cup {Nil}]
      BY <1>2, <2>1, NewFlow DEF OpenBrowser, CInv
    <2>3. cmd' \in Command /\ cmd'.at = "wait" /\ cmd'.flow = f
      BY <1>2 DEF OpenBrowser, CInv, TypeOK, Command
    <2> QED
      BY <1>2, <2>2, <2>3 DEF OpenBrowser, CInv, TypeOK, HeardOK, page
  <1>3. ASSUME NEW f \in Flows, ShowCode(f) PROVE CInv'
    <2>1. flow' \in [Flows -> Flow \cup {Nil}]
      BY <1>3, NewFlow DEF ShowCode, CInv, Ways
    <2>2. cmd' \in Command /\ cmd'.at = "poll" /\ cmd'.flow = f
      BY <1>3, RoundsAssumption DEF ShowCode, Command
    <2> QED
      BY <1>3, <2>1, <2>2 DEF ShowCode, CInv, TypeOK, HeardOK, page
  <1>4. CASE DeviceCode
    <2>1. cmd' \in Command /\ cmd'.at = "askCode"
      BY <1>4, RoundsAssumption DEF DeviceCode, NoCommand, Command
    <2> QED
      BY <1>4, <2>1 DEF DeviceCode, CInv, TypeOK, HeardOK, page
  <1>5. CASE SetReceived
    <2>1. heard' \in Redirect /\ heard' = got /\ got \in Redirect
      BY <1>5 DEF SetReceived, CInv, TypeOK, HeardOK, Redirect
    <2>2. cmd.at # "post"
      BY <1>5 DEF SetReceived, CInv, HeardOK
    <2> QED
      BY <1>5, <2>1, <2>2 DEF SetReceived, CInv, TypeOK, HeardOK, page
  <1>6. CASE TimeOut
    BY <1>6, EndCInv DEF TimeOut, CInv, TypeOK
  <1>7. CASE StopWaiting
    <2>1. CASE End
      BY <1>7, <2>1, EndCInv DEF StopWaiting, CInv, TypeOK
    <2>2. CASE heard.code # Nil /\ cmd' = [cmd EXCEPT !.at = "post"] /\ handler' = "off"
               /\ UNCHANGED <<got, heard, received>>
      <3>1. cmd' \in Command /\ cmd'.at = "post" /\ cmd'.flow = cmd.flow
        BY <2>2 DEF CInv, TypeOK, Command
      <3> QED
        BY <1>7, <2>2, <3>1 DEF StopWaiting, CInv, TypeOK, HeardOK, page
    <2> QED
      BY <1>7, <2>1, <2>2 DEF StopWaiting
  <1>8. CASE PostCallback
    <2>1. heard.state \in Flows /\ flow[heard.state] # Nil
      BY <1>8 DEF PostCallback, Is, CInv, TypeOK, Redirect
    <2> QED
      BY <1>8, <2>1, BecomesType, EndCInv DEF PostCallback, CInv
  <1>9. CASE CallFails
    BY <1>9, EndCInv DEF CallFails, CInv, TypeOK
  <1>10. CASE PollRound
    <2>1. CASE cmd.rounds < Rounds /\ cmd' = [cmd EXCEPT !.rounds = @ + 1]
               /\ UNCHANGED <<flow, handler, got, heard, received>>
      <3>1. cmd' \in Command /\ cmd'.at = cmd.at /\ cmd'.flow = cmd.flow
        BY <2>1, RoundsAssumption DEF CInv, TypeOK, Command
      <3> QED
        BY <1>10, <2>1, <3>1 DEF PollRound, CInv, TypeOK, HeardOK, page
    <2>2. CASE Is(cmd.flow, "granted") /\ Becomes(cmd.flow, "linked") /\ End
      <3>1. cmd.flow \in Flows /\ flow[cmd.flow] # Nil
        BY <1>10, <2>2 DEF PollRound, CInv, Is
      <3> QED
        BY <1>10, <2>2, <3>1, BecomesType, EndCInv DEF PollRound, CInv
    <2>3. CASE End /\ UNCHANGED flow
      BY <1>10, <2>3, EndCInv DEF PollRound, CInv, TypeOK
    <2> QED
      BY <1>10, <2>1, <2>2, <2>3 DEF PollRound
  <1> QED
    BY <1>1, <1>2, <1>3, <1>4, <1>5, <1>6, <1>7, <1>8, <1>9, <1>10

\* The page and the provider leave the terminal alone.
LEMMA PageCInv ==
  ASSUME CInv, UNCHANGED terminal,
         flow' \in [Flows -> Flow \cup {Nil}], linking' \in Ways \cup {Nil}, card' \in Flows \cup {Nil},
         check' \in Check, check'.at # "idle" => check'.code \in Flows
  PROVE  CInv'
  BY DEF CInv, TypeOK, HeardOK, terminal

LEMMA NoCheckOK == NoCheck \in Check /\ NoCheck.at = "idle"
  BY DEF NoCheck, Check

LEMMA AfterPollOK ==
  ASSUME CInv, check.at \in {"first", "second"}
  PROVE  AfterPoll \in Check /\ (AfterPoll.at # "idle" => AfterPoll.code \in Flows)
  <1>1. CASE check.at = "first"
    <2>1. [check EXCEPT !.at = "timer"] \in Check /\ [check EXCEPT !.at = "timer"].code \in Flows
      BY <1>1 DEF CInv, TypeOK, Check
    <2> QED
      BY <1>1, <2>1 DEF AfterPoll
  <1>2. CASE check.at # "first"
    BY <1>2, NoCheckOK DEF AfterPoll
  <1> QED
    BY <1>1, <1>2

LEMMA WebCInv ==
  ASSUME CInv,
         \/ \E f \in Flows : (\E way \in Ways : StartLink(f, way)) \/ StartStep(f) \/ Grant(f) \/ Expire(f)
         \/ Cancel \/ CheckStatus \/ CheckStep
  PROVE  CInv'
  <1> USE DEF page
  <1>0. /\ flow \in [Flows -> Flow \cup {Nil}] /\ linking \in Ways \cup {Nil} /\ card \in Flows \cup {Nil}
        /\ check \in Check /\ (check.at # "idle" => check.code \in Flows)
    BY DEF CInv, TypeOK
  <1>1. ASSUME NEW f \in Flows, NEW way \in Ways, StartLink(f, way) PROVE CInv'
    <2>1. flow' \in [Flows -> Flow \cup {Nil}]
      BY <1>1, NewFlow DEF StartLink, CInv
    <2> QED
      BY <1>0, <1>1, <2>1, PageCInv DEF StartLink
  <1>2. ASSUME NEW f \in Flows, StartStep(f) PROVE CInv'
    <2>1. flow[f] # Nil /\ (Becomes(f, "open") \/ Becomes(f, "gone"))
      BY <1>2 DEF StartStep, StartOk, StartFails, Is
    <2>2. flow' \in [Flows -> Flow \cup {Nil}]
      BY <2>1, BecomesType DEF CInv
    <2> QED
      BY <1>0, <1>2, <2>2, PageCInv DEF StartStep, StartOk, StartFails
  <1>3. ASSUME NEW f \in Flows, Grant(f) \/ Expire(f) PROVE CInv'
    <2>1. flow[f] # Nil /\ (Becomes(f, "granted") \/ Becomes(f, "gone"))
      BY <1>3 DEF Grant, Expire, Is
    <2>2. flow' \in [Flows -> Flow \cup {Nil}]
      BY <2>1, BecomesType DEF CInv
    <2> QED
      BY <1>0, <1>3, <2>2, PageCInv DEF Grant, Expire
  <1>4. CASE Cancel
    BY <1>0, <1>4, PageCInv DEF Cancel
  <1>5. CASE CheckStatus
    <2>1. check' \in Check /\ check'.code \in Flows
      BY <1>0, <1>5 DEF CheckStatus, Check
    <2> QED
      BY <1>0, <1>5, <2>1, PageCInv DEF CheckStatus
  <1>6. CASE Timer
    <2>1. check' \in Check /\ check'.code \in Flows
      BY <1>0, <1>6 DEF Timer, Check
    <2> QED
      BY <1>0, <1>6, <2>1, PageCInv DEF Timer
  <1>7. CASE PollPending
    BY <1>0, <1>7, AfterPollOK, PageCInv DEF PollPending
  <1>8. CASE PollLinked
    <2>1. check.code \in Flows /\ flow[check.code] # Nil
      BY <1>0, <1>8 DEF PollLinked, Is
    <2>2. flow' \in [Flows -> Flow \cup {Nil}]
      BY <1>8, <2>1, BecomesType DEF PollLinked, CInv
    <2> QED
      BY <1>0, <1>8, <2>2, NoCheckOK, PageCInv DEF PollLinked
  <1>9. CASE PollFails
    BY <1>0, <1>9, AfterPollOK, PageCInv DEF PollFails
  <1> QED
    BY <1>1, <1>2, <1>3, <1>4, <1>5, <1>6, <1>7, <1>8, <1>9 DEF CheckStep

LEMMA NextCInv == ASSUME CInv, [Next]_vars PROVE CInv'
  <1>1. ASSUME NEW f \in Flows, NEW code \in {f, Nil}, SendBack(f, code) PROVE CInv'
    BY <1>1, GetCInv DEF SendBack
  <1>2. CASE Stray
    BY <1>2, GetCInv DEF Stray
  <1>3. CASE UNCHANGED vars
    BY <1>3 DEF vars, terminal, page, CInv, TypeOK, HeardOK
  <1> QED
    BY <1>1, <1>2, <1>3, TerminalCInv, WebCInv DEF Next, CommandStep

LEMMA Invariance == Spec => []CInv
  BY InitCInv, NextCInv, PTL DEF Spec

\* The variables of LinkClients keep their types.
THEOREM TypeCorrect == Spec => []TypeOK
  BY Invariance, PTL DEF CInv

\* What the command posts to the API is the code and the state of one request:
\* neither a second request nor the thread, halfway through one, can mix them.
THEOREM OneRequestsPair == Spec => []PairFromOneRequest
  <1>1. CInv => PairFromOneRequest
    BY DEF CInv, HeardOK, PairFromOneRequest
  <1> QED
    BY <1>1, Invariance, PTL

-----------------------------------------------------------------------------
\* Steps of the terminal, the provider and a check keep every start under way.
LEMMA StartsStay ==
  ASSUME CInv, NEW f \in Flows, Becomes(f, "open") \/ Becomes(f, "granted") \/ Becomes(f, "linked") \/ Becomes(f, "gone"),
         ~Is(f, "asked"), NEW g \in Flows, Is(g, "asked")
  PROVE  Is(g, "asked")'
  BY DEF Becomes, Is, CInv, TypeOK

LEMMA ButtonsStep ==
  ASSUME CInv, ButtonsComeBack, [Next]_vars
  PROVE  ButtonsComeBack'
  <1> USE DEF page
  <1>0. ASSUME UNCHANGED <<linking, card>>, \A g \in Flows : Is(g, "asked") => Is(g, "asked")'
        PROVE  ButtonsComeBack'
    BY <1>0 DEF ButtonsComeBack
  <1>1. ASSUME linking' = Nil PROVE ButtonsComeBack'
    BY <1>1 DEF ButtonsComeBack
  <1>2. ASSUME UNCHANGED <<flow, linking, card>> PROVE ButtonsComeBack'
    BY <1>0, <1>2 DEF Is
  <1>3. ASSUME NEW f \in Flows, (\E way \in Ways : OpenBrowser(f, way)) \/ ShowCode(f)
        PROVE  ButtonsComeBack'
    <2>1. \A g \in Flows : Is(g, "asked") => g # f /\ Is(g, "asked")'
      BY <1>3 DEF OpenBrowser, ShowCode, Is, CInv, TypeOK
    <2> QED
      BY <1>0, <1>3, <2>1 DEF OpenBrowser, ShowCode
  <1>4. ASSUME NEW f \in Flows, NEW way \in Ways, StartLink(f, way) PROVE ButtonsComeBack'
    <2> DEFINE new == [way |-> way, port |-> Nil, stage |-> "asked"]
    <2>1. new \in Flow /\ new.stage = "asked"
      BY DEF Flow
    <2>2. flow'[f] = new
      BY <1>4 DEF StartLink, CInv, TypeOK
    <2>3. Nil \notin Flow
      BY NilAssumption
    <2> HIDE DEF new
    <2>4. Is(f, "asked")'
      BY <2>1, <2>2, <2>3 DEF Is
    <2> QED
      BY <2>4 DEF ButtonsComeBack
  <1>5. ASSUME NEW f \in Flows, StartStep(f) PROVE ButtonsComeBack'
    <2>1. CASE flow[f].way = "device" /\ card' = f
      BY <2>1, NilAssumption DEF ButtonsComeBack
    <2> QED
      BY <1>1, <1>5, <2>1 DEF StartStep, StartOk, StartFails
  <1>6. ASSUME NEW f \in Flows, Grant(f) \/ Expire(f) PROVE ButtonsComeBack'
    <2>1. ~Is(f, "asked") /\ (Becomes(f, "granted") \/ Becomes(f, "gone"))
      BY <1>6 DEF Grant, Expire, Is
    <2>2. \A g \in Flows : Is(g, "asked") => Is(g, "asked")'
      BY <2>1, StartsStay
    <2> QED
      BY <1>0, <1>6, <2>2 DEF Grant, Expire
  <1>7. CASE PostCallback
    <2>1. PICK f \in Flows : f = heard.state
      BY <1>7 DEF PostCallback, CInv, TypeOK, Redirect
    <2>2. ~Is(f, "asked") /\ Becomes(f, "linked")
      BY <1>7, <2>1 DEF PostCallback, Is
    <2>3. \A g \in Flows : Is(g, "asked") => Is(g, "asked")'
      BY <2>2, StartsStay
    <2> QED
      BY <1>0, <1>7, <2>3 DEF PostCallback
  <1>8. CASE PollRound
    <2>1. CASE UNCHANGED flow
      BY <1>2, <1>8, <2>1 DEF PollRound
    <2>2. CASE Is(cmd.flow, "granted") /\ Becomes(cmd.flow, "linked")
      <3>1. PICK f \in Flows : f = cmd.flow
        BY <1>8 DEF PollRound, CInv
      <3>2. ~Is(f, "asked") /\ Becomes(f, "linked")
        BY <2>2, <3>1 DEF Is
      <3>3. \A g \in Flows : Is(g, "asked") => Is(g, "asked")'
        BY <3>2, StartsStay
      <3> QED
        BY <1>0, <1>8, <3>3 DEF PollRound
    <2> QED
      BY <1>8, <2>1, <2>2 DEF PollRound
  <1>9. CASE PollLinked \/ PollFails \/ Cancel
    BY <1>1, <1>9 DEF PollLinked, PollFails, Cancel
  <1>10. CASE CheckStatus \/ Timer \/ PollPending
    BY <1>2, <1>10 DEF CheckStatus, Timer, PollPending
  <1>11. ASSUME \/ \E p \in Ports : Loopback(p)
                \/ DeviceCode \/ TimeOut \/ StopWaiting \/ CallFails \/ Stray \/ SetReceived
                \/ \E f \in Flows : \E code \in {f, Nil} : SendBack(f, code)
         PROVE  ButtonsComeBack'
    <2>1. UNCHANGED <<flow, linking, card>>
      BY <1>11 DEF Loopback, DeviceCode, TimeOut, StopWaiting, CallFails, Stray, SetReceived, SendBack, Get
    <2> QED
      BY <1>2, <2>1
  <1>12. CASE UNCHANGED vars
    <2>1. UNCHANGED <<flow, linking, card>>
      BY <1>12 DEF vars
    <2> QED
      BY <1>2, <2>1
  <1> QED
    BY <1>3, <1>4, <1>5, <1>6, <1>7, <1>8, <1>9, <1>10, <1>11, <1>12 DEF Next, CommandStep, CheckStep

\* The provider buttons are never left disabled, in whatever order the answers of
\* starts, checks and cancellations come.
THEOREM ButtonsNeverStuck == Spec => []ButtonsComeBack
  <1>1. Init => ButtonsComeBack
    BY DEF Init, ButtonsComeBack
  <1> QED
    BY <1>1, Invariance, ButtonsStep, PTL DEF Spec
=============================================================================
