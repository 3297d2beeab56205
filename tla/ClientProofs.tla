---------------------------- MODULE ClientProofs ----------------------------
(* What invocations report, where they ask for a signature and whose it is, for
   any number of invocations beside any number of session calls. The session in
   such a page is that of WalletSession, whose proofs come first. *)
EXTENDS Client, TLAPS

-----------------------------------------------------------------------------
(* The session: Settled and StoredIsShown for any number of calls and wallets. *)

(* Who says "connecting" has someone at work on it. *)
Busy == state.status = "connecting" => \E c \in Call : at[c] \in {"connect", "restore"}

Alone == "overlap" \notin blamed => \A c, d \in InFlight : c = d

(* A minimal adapter has no wallet id to store. *)
Nameless == ~rich => stored \in {None, [wallet |-> None]}

(* A page starts disconnected. *)
Unused == ~used => state.status # "connected"

(* What a restore is after is stored, and selected. *)
Restoring == blamed = {} => \A c \in Call :
               at[c] = "restore" => stored # None /\ stored.wallet \in {None, selected}

IInv == TypeOK /\ Busy /\ Alone /\ Nameless /\ Unused /\ Restoring /\ StoredIsShown

LEMMA InvInit == Init => IInv
<1> SUFFICES ASSUME Init PROVE IInv
  OBVIOUS
<1> USE SessionAssumption DEF Init, Disconnected
<1>1. TypeOK
  BY DEF TypeOK, Session, Status
<1>2. Busy /\ Alone /\ Nameless /\ Unused /\ Restoring /\ StoredIsShown
  BY DEF Busy, Alone, InFlight, Nameless, Unused, Restoring, StoredIsShown
<1> QED
  BY <1>1, <1>2 DEF IInv

(* A call that begins, if it is not the first in flight, is to blame. *)
LEMMA BeginAlone ==
  ASSUME TypeOK, Alone, NEW c \in Call, NEW kind \in {"connect", "disconnect", "restore"},
         Begin(c, kind)
  PROVE  /\ Alone'
         /\ c \in InFlight'
         /\ blamed' \in SUBSET {"overlap", "late", "storage"}
         /\ blamed' = {} => blamed = {} /\ InFlight = {}
<1>1. c \in InFlight' /\ InFlight' = InFlight \cup {c}
  BY DEF Begin, InFlight, TypeOK
<1>2. CASE InFlight = {}
  BY <1>1, <1>2 DEF Begin, Blame, Alone, TypeOK
<1>3. CASE InFlight # {}
  BY <1>1, <1>3 DEF Begin, Blame, Alone, TypeOK
<1> QED
  BY <1>2, <1>3

(* A call that ends leaves fewer. *)
LEMMA EndAlone ==
  ASSUME TypeOK, Alone, NEW c \in Call, NEW kind \in {"connect", "disconnect", "restore"},
         End(c, kind), blamed \subseteq blamed'
  PROVE  /\ Alone'
         /\ InFlight' = InFlight \ {c}
         /\ blamed' = {} => blamed = {} /\ InFlight' = {}
<1>1. InFlight' = InFlight \ {c} /\ c \in InFlight
  BY DEF End, InFlight, TypeOK
<1>2. Alone'
  BY <1>1 DEF Alone
<1>3. blamed' = {} => blamed = {} /\ InFlight' = {}
  BY <1>1 DEF Alone
<1> QED
  BY <1>1, <1>2, <1>3

(* What every end of a call has to show: it ends on a state that is not
   "connecting" and that what is stored agrees with, unless it is to blame. *)
LEMMA EndKeeps ==
  ASSUME IInv, TypeOK', NEW c \in Call, NEW kind \in {"connect", "disconnect", "restore"},
         End(c, kind), blamed \subseteq blamed', Nameless',
         state'.status # "connecting",
         blamed' = {} =>
           /\ state'.status = "connected"
                => stored' # None /\ stored'.wallet \in {None, state'.publicKey}
           /\ state'.status = "disconnected" /\ ~state'.error => stored' = None
  PROVE  IInv'
<1>1. Alone' /\ (blamed' = {} => InFlight' = {})
  BY EndAlone DEF IInv
<1>2. Busy' /\ Unused'
  BY DEF Busy, Unused, End
<1>3. Restoring'
  BY <1>1 DEF Restoring, InFlight
<1>4. StoredIsShown'
  BY DEF StoredIsShown
<1> QED
  BY <1>1, <1>2, <1>3, <1>4 DEF IInv
LEMMA ConnectKeeps == \A c \in Call : IInv /\ Connect(c) => IInv'
<1> SUFFICES ASSUME NEW c \in Call, IInv, Connect(c) PROVE IInv'
  OBVIOUS
<1> USE SessionAssumption
<1>1. Begin(c, "connect") /\ TypeOK /\ Alone
  BY DEF Connect, IInv
<1>2. /\ Alone'
      /\ c \in InFlight'
      /\ blamed' \in SUBSET {"overlap", "late", "storage"}
      /\ blamed' = {} => blamed = {} /\ InFlight = {}
  BY <1>1, BeginAlone
<1>3. TypeOK'
  BY <1>1, <1>2 DEF Connect, Begin, TypeOK, Session, Status, Persisted, Connecting
<1>4. Busy' /\ Nameless' /\ Unused'
  BY <1>1 DEF Connect, Begin, IInv, TypeOK, Busy, Nameless, Unused, Connecting
<1>5. Restoring'
  BY <1>1, <1>2 DEF Connect, Begin, TypeOK, Persisted, Restoring, InFlight
<1>6. StoredIsShown'
  BY <1>2 DEF StoredIsShown
<1> QED
  BY <1>2, <1>3, <1>4, <1>5, <1>6 DEF IInv

LEMMA DisconnectKeeps == \A c \in Call : IInv /\ Disconnect(c) => IInv'
<1> SUFFICES ASSUME NEW c \in Call, IInv, Disconnect(c) PROVE IInv'
  OBVIOUS
<1> USE SessionAssumption
<1>1. Begin(c, "disconnect") /\ TypeOK /\ Alone
  BY DEF Disconnect, IInv
<1>2. /\ Alone'
      /\ c \in InFlight'
      /\ blamed' \in SUBSET {"overlap", "late", "storage"}
      /\ blamed' = {} => blamed = {} /\ InFlight = {}
  BY <1>1, BeginAlone
<1>3. TypeOK'
  BY <1>1, <1>2 DEF Disconnect, Begin, TypeOK, Session, Status, Persisted, Connecting
<1>4. Busy' /\ Nameless' /\ Unused'
  BY <1>1 DEF Disconnect, Begin, IInv, TypeOK, Busy, Nameless, Unused, Connecting
<1>5. Restoring'
  BY <1>1, <1>2 DEF Disconnect, Begin, TypeOK, Persisted, Restoring, InFlight
<1>6. StoredIsShown'
  BY <1>2 DEF StoredIsShown
<1> QED
  BY <1>2, <1>3, <1>4, <1>5, <1>6 DEF IInv

LEMMA RestoreKeeps == \A c \in Call : IInv /\ Restore(c) => IInv'
<1> SUFFICES ASSUME NEW c \in Call, IInv, Restore(c) PROVE IInv'
  OBVIOUS
<1> USE SessionAssumption
<1>1. Begin(c, "restore") /\ TypeOK /\ Alone
  BY DEF Restore, IInv
<1>2. /\ Alone'
      /\ c \in InFlight'
      /\ blamed' \in SUBSET {"overlap", "late", "storage"}
      /\ blamed' = {} => blamed = {} /\ InFlight = {}
  BY <1>1, BeginAlone
<1>3. TypeOK'
  BY <1>1, <1>2 DEF Restore, Begin, TypeOK, Session, Status, Persisted, Connecting
<1>4. Busy' /\ Nameless' /\ Unused'
  BY <1>1 DEF Restore, Begin, IInv, TypeOK, Busy, Nameless, Unused, Connecting
<1>5. Restoring'
  BY <1>1, <1>2 DEF Restore, Begin, IInv, Nameless, TypeOK, Persisted, Restoring, InFlight
<1>6. StoredIsShown'
  BY <1>2 DEF StoredIsShown
<1> QED
  BY <1>2, <1>3, <1>4, <1>5, <1>6 DEF IInv

LEMMA ConnectAnsweredKeeps == \A c \in Call : IInv /\ ConnectAnswered(c) => IInv'
<1> SUFFICES ASSUME NEW c \in Call, IInv, ConnectAnswered(c) PROVE IInv'
  OBVIOUS
<1> USE SessionAssumption
<1>1. End(c, "connect") /\ blamed \subseteq blamed'
  BY DEF ConnectAnswered, Store, Blame
<1>2. TypeOK' /\ Nameless'
  BY DEF ConnectAnswered, End, Store, Blame, IInv, TypeOK, Session, Status, Persisted,
         Nameless, Connected
<1>3. /\ state'.status # "connecting"
      /\ blamed' = {} =>
           /\ state'.status = "connected"
                => stored' # None /\ stored'.wallet \in {None, state'.publicKey}
           /\ state'.status = "disconnected" /\ ~state'.error => stored' = None
  <2>1. state' = [status |-> "connected", publicKey |-> selected', error |-> FALSE]
    BY DEF ConnectAnswered, Connected
  <2>2. blamed' = {} => stored' = [wallet |-> IF rich THEN selected' ELSE None]
    BY DEF ConnectAnswered, Store, Blame
  <2>3. blamed' = {} => stored' # None /\ stored'.wallet \in {None, selected'}
    BY <1>2, <2>2 DEF TypeOK, Persisted
  <2> QED
    BY <2>1, <2>3
<1> QED
  BY <1>1, <1>2, <1>3, EndKeeps

LEMMA ConnectRejectedKeeps == \A c \in Call : IInv /\ ConnectRejected(c) => IInv'
<1> SUFFICES ASSUME NEW c \in Call, IInv, ConnectRejected(c) PROVE IInv'
  OBVIOUS
<1> USE SessionAssumption
<1>1. End(c, "connect") /\ blamed \subseteq blamed'
  BY DEF ConnectRejected, Store, Blame
<1>2. TypeOK' /\ Nameless'
  BY DEF ConnectRejected, End, Store, Blame, IInv, TypeOK, Session, Status, Persisted,
         Nameless, Disconnected
<1>3. /\ state'.status # "connecting"
      /\ blamed' = {} =>
           /\ state'.status = "connected"
                => stored' # None /\ stored'.wallet \in {None, state'.publicKey}
           /\ state'.status = "disconnected" /\ ~state'.error => stored' = None
  BY <1>1 DEF ConnectRejected, Store, Blame, Disconnected, Persisted, IInv, TypeOK, Restoring, End
<1> QED
  BY <1>1, <1>2, <1>3, EndKeeps

LEMMA ConnectTimesOutKeeps == \A c \in Call : IInv /\ ConnectTimesOut(c) => IInv'
<1> SUFFICES ASSUME NEW c \in Call, IInv, ConnectTimesOut(c) PROVE IInv'
  OBVIOUS
<1> USE SessionAssumption
<1>1. End(c, "connect") /\ blamed \subseteq blamed'
  BY DEF ConnectTimesOut, Store, Blame
<1>2. TypeOK' /\ Nameless'
  BY DEF ConnectTimesOut, End, Store, Blame, IInv, TypeOK, Session, Status, Persisted,
         Nameless, Disconnected
<1>3. /\ state'.status # "connecting"
      /\ blamed' = {} =>
           /\ state'.status = "connected"
                => stored' # None /\ stored'.wallet \in {None, state'.publicKey}
           /\ state'.status = "disconnected" /\ ~state'.error => stored' = None
  BY <1>1 DEF ConnectTimesOut, Store, Blame, Disconnected, Persisted, IInv, TypeOK, Restoring, End
<1> QED
  BY <1>1, <1>2, <1>3, EndKeeps

LEMMA DisconnectEndsKeeps == \A c \in Call : IInv /\ DisconnectEnds(c) => IInv'
<1> SUFFICES ASSUME NEW c \in Call, IInv, DisconnectEnds(c) PROVE IInv'
  OBVIOUS
<1> USE SessionAssumption
<1>1. End(c, "disconnect") /\ blamed \subseteq blamed'
  BY DEF DisconnectEnds, Store, Blame
<1>2. TypeOK' /\ Nameless'
  BY DEF DisconnectEnds, End, Store, Blame, IInv, TypeOK, Session, Status, Persisted,
         Nameless, Disconnected
<1>3. /\ state'.status # "connecting"
      /\ blamed' = {} =>
           /\ state'.status = "connected"
                => stored' # None /\ stored'.wallet \in {None, state'.publicKey}
           /\ state'.status = "disconnected" /\ ~state'.error => stored' = None
  BY <1>1 DEF DisconnectEnds, Store, Blame, Disconnected, Persisted, IInv, TypeOK, Restoring, End
<1> QED
  BY <1>1, <1>2, <1>3, EndKeeps

LEMMA RestoreAnsweredKeeps == \A c \in Call : IInv /\ RestoreAnswered(c) => IInv'
<1> SUFFICES ASSUME NEW c \in Call, IInv, RestoreAnswered(c) PROVE IInv'
  OBVIOUS
<1> USE SessionAssumption
<1>1. End(c, "restore") /\ blamed \subseteq blamed'
  BY DEF RestoreAnswered, Store, Blame
<1>2. TypeOK' /\ Nameless'
  BY DEF RestoreAnswered, End, Store, Blame, IInv, TypeOK, Session, Status, Persisted,
         Nameless, Connected
<1>3. /\ state'.status # "connecting"
      /\ blamed' = {} =>
           /\ state'.status = "connected"
                => stored' # None /\ stored'.wallet \in {None, state'.publicKey}
           /\ state'.status = "disconnected" /\ ~state'.error => stored' = None
  BY <1>1 DEF RestoreAnswered, Store, Blame, Connected, Persisted, IInv, TypeOK, Restoring, End
<1> QED
  BY <1>1, <1>2, <1>3, EndKeeps

LEMMA RestoreRejectedKeeps == \A c \in Call : IInv /\ RestoreRejected(c) => IInv'
<1> SUFFICES ASSUME NEW c \in Call, IInv, RestoreRejected(c) PROVE IInv'
  OBVIOUS
<1> USE SessionAssumption
<1>1. End(c, "restore") /\ blamed \subseteq blamed'
  BY DEF RestoreRejected, Store, Blame
<1>2. TypeOK' /\ Nameless'
  BY DEF RestoreRejected, End, Store, Blame, IInv, TypeOK, Session, Status, Persisted,
         Nameless, Disconnected
<1>3. /\ state'.status # "connecting"
      /\ blamed' = {} =>
           /\ state'.status = "connected"
                => stored' # None /\ stored'.wallet \in {None, state'.publicKey}
           /\ state'.status = "disconnected" /\ ~state'.error => stored' = None
  BY <1>1 DEF RestoreRejected, Store, Blame, Disconnected, Persisted, IInv, TypeOK, Restoring, End
<1> QED
  BY <1>1, <1>2, <1>3, EndKeeps

LEMMA RestoreTimesOutKeeps == \A c \in Call : IInv /\ RestoreTimesOut(c) => IInv'
<1> SUFFICES ASSUME NEW c \in Call, IInv, RestoreTimesOut(c) PROVE IInv'
  OBVIOUS
<1> USE SessionAssumption
<1>1. End(c, "restore") /\ blamed \subseteq blamed'
  BY DEF RestoreTimesOut, Store, Blame
<1>2. TypeOK' /\ Nameless'
  BY DEF RestoreTimesOut, End, Store, Blame, IInv, TypeOK, Session, Status, Persisted,
         Nameless, Disconnected
<1>3. /\ state'.status # "connecting"
      /\ blamed' = {} =>
           /\ state'.status = "connected"
                => stored' # None /\ stored'.wallet \in {None, state'.publicKey}
           /\ state'.status = "disconnected" /\ ~state'.error => stored' = None
  BY <1>1 DEF RestoreTimesOut, Store, Blame, Disconnected, Persisted, IInv, TypeOK, Restoring, End
<1> QED
  BY <1>1, <1>2, <1>3, EndKeeps

LEMMA PageKeeps == IInv /\ (RestoreReturns \/ LateAnswer \/ Switch \/ Reload) => IInv'
<1> USE SessionAssumption
<1>1. ASSUME IInv, RestoreReturns PROVE IInv'
  BY <1>1 DEF RestoreReturns, Blame, IInv, TypeOK, Busy, Alone, InFlight, Nameless,
              Unused, Restoring, StoredIsShown
<1>2. ASSUME IInv, LateAnswer PROVE IInv'
  BY <1>2 DEF LateAnswer, Blame, IInv, TypeOK, Busy, Alone, InFlight, Nameless,
              Unused, Restoring, StoredIsShown
<1>3. ASSUME IInv, Switch PROVE IInv'
  BY <1>3 DEF Switch, IInv, TypeOK, Busy, Alone, InFlight, Nameless,
              Unused, Restoring, StoredIsShown
<1>4. ASSUME IInv, Reload PROVE IInv'
  <2>1. TypeOK'
    BY <1>4 DEF Reload, IInv, TypeOK, Session, Status, Disconnected
  <2> QED
    BY <1>4, <2>1 DEF Reload, Disconnected, IInv, Busy, Alone, InFlight, Nameless,
                      Unused, Restoring, StoredIsShown
<1> QED
  BY <1>1, <1>2, <1>3, <1>4

LEMMA InvNext == IInv /\ [Next]_vars => IInv'
<1> SUFFICES ASSUME IInv, [Next]_vars PROVE IInv'
  OBVIOUS
<1>1. ASSUME NEW c \in Call, Connect(c) \/ Disconnect(c) \/ Restore(c) PROVE IInv'
  BY <1>1, ConnectKeeps, DisconnectKeeps, RestoreKeeps
<1>2. ASSUME NEW c \in Call, ConnectAnswered(c) \/ ConnectRejected(c) \/ ConnectTimesOut(c)
      PROVE  IInv'
  BY <1>2, ConnectAnsweredKeeps, ConnectRejectedKeeps, ConnectTimesOutKeeps
<1>3. ASSUME NEW c \in Call, RestoreAnswered(c) \/ RestoreRejected(c) \/ RestoreTimesOut(c)
      PROVE  IInv'
  BY <1>3, RestoreAnsweredKeeps, RestoreRejectedKeeps, RestoreTimesOutKeeps
<1>4. ASSUME NEW c \in Call, DisconnectEnds(c) PROVE IInv'
  BY <1>4, DisconnectEndsKeeps
<1>5. CASE UNCHANGED vars
  BY <1>5 DEF vars, IInv, TypeOK, Busy, Alone, InFlight, Nameless, Unused,
              Restoring, StoredIsShown
<1> QED
  BY <1>1, <1>2, <1>3, <1>4, <1>5, PageKeeps DEF Next, Steps

(* The variables of the session stay in their ranges; an address is shown
   exactly while connected, an error only while disconnected. *)
THEOREM TypeCorrect == Spec => []TypeOK
<1>1. IInv => TypeOK
  BY DEF IInv
<1> QED
  BY <1>1, InvInit, InvNext, PTL DEF Spec

(* No overlap of calls, however many, leaves the page "connecting" when the
   last of them is over. *)
THEOREM AlwaysSettles == Spec => []Settled
<1>1. IInv => Settled
  BY DEF IInv, Busy, InFlight, Settled
<1> QED
  BY <1>1, InvInit, InvNext, PTL DEF Spec

(* What a page shows after any sequence of calls that do not overlap is what
   the storage will restore. *)
THEOREM ShownIsStored == Spec => []StoredIsShown
<1>1. IInv => StoredIsShown
  BY DEF IInv
<1> QED
  BY <1>1, InvInit, InvNext, PTL DEF Spec

-----------------------------------------------------------------------------
(* The page *)

(* A step of the page is a step of the session, or leaves it alone. *)
LEMMA SessionUndisturbed == [ClientNext]_clientVars => [Next]_vars
<1> SUFFICES ASSUME ClientNext PROVE [Next]_vars
  BY DEF clientVars
<1>1. CASE SessionSteps \/ Reloads
  BY <1>1 DEF SessionSteps, Reloads, Next
<1>2. CASE Moves
  BY <1>2 DEF Moves
<1>3. ASSUME NEW i \in Invocation, NEW x, Becomes(i, x) PROVE UNCHANGED vars
  BY <1>3 DEF Becomes
<1> QED
  BY <1>1, <1>2, <1>3 DEF ClientNext, Invoke, Read, BuildXdr, NetworkAnswered, NetworkUnknown,
     AccountAnswered, AccountRefused, RequestTimesOut, TimesOut, CreateClientFails, CallMethod, Prepared,
     RestoreSigned, RestoreSubmitted, RestorePromptTimesOut, Prepare, PrepareRead, Submit,
     Signed, SignRefused, SignTimesOut, LateSignature, Accepted, Refused, Lands, Poll,
     Goes, Ends

(* The session of a page that also calls contracts is the session: its theorems
   are theorems of the page. *)
THEOREM SessionInPage == ClientSpec => Spec
<1>1. ClientInit => Init
  BY DEF ClientInit
<1> QED
  BY <1>1, SessionUndisturbed, PTL DEF ClientSpec, Spec

-----------------------------------------------------------------------------

(* What a rich adapter's idle session shows is what is selected. *)
Vouched == Shown # None => Shown = selected

LEMMA VouchedInit == Init => Vouched
  BY DEF Init, Vouched, Shown, Disconnected

LEMMA VouchedNext == IInv /\ Vouched /\ [Next]_vars => Vouched'
<1> SUFFICES ASSUME IInv, Vouched, [Next]_vars PROVE Vouched'
  OBVIOUS
<1> USE SessionAssumption DEF Vouched, Shown
<1>1. TypeOK
  BY DEF IInv
<1>2. ASSUME NEW c \in Call, NEW kind \in {"connect", "disconnect", "restore"}, Begin(c, kind)
      PROVE  InFlight' # {}
  BY <1>1, <1>2 DEF Begin, InFlight, TypeOK
<1>3. CASE \E c \in Call : Connect(c) \/ Disconnect(c) \/ Restore(c)
  BY <1>2, <1>3 DEF Connect, Disconnect, Restore
<1>4. CASE \E c \in Call : ConnectAnswered(c) \/ RestoreAnswered(c)
  BY <1>4 DEF ConnectAnswered, RestoreAnswered, Connected
<1>5. CASE \E c \in Call : \/ ConnectRejected(c) \/ ConnectTimesOut(c) \/ DisconnectEnds(c)
                           \/ RestoreRejected(c) \/ RestoreTimesOut(c)
  BY <1>5 DEF ConnectRejected, ConnectTimesOut, DisconnectEnds, RestoreRejected,
     RestoreTimesOut, Disconnected
<1>6. CASE RestoreReturns \/ LateAnswer \/ Switch
  BY <1>6 DEF RestoreReturns, LateAnswer, Switch, Blame, InFlight
<1>7. CASE Reload
  BY <1>7 DEF Reload, Disconnected
<1>8. CASE UNCHANGED vars
  BY <1>8 DEF vars, InFlight
<1> QED
  BY <1>3, <1>4, <1>5, <1>6, <1>7, <1>8 DEF Next, Steps

-----------------------------------------------------------------------------

Account == Wallet \cup {None, "config", "option"}
Result == Reported \cup {None}

Record == [at : Pending \cup {"done"}, kind : {"invoke", "restore", "read", "build"},
           source : Account, signer : Wallet \cup {None}, shown : Wallet \cup {None},
           unsure : BOOLEAN, prompt : BOOLEAN,
           tx : {"none", "live", "success", "reverted", "expired"}, result : Result]

(* Nothing is submitted before the submission, nothing reported before the end. *)
Outcome(x) ==
  /\ x.at \in Pending => x.result = None
  /\ x.at \in Pending \ {"polling"} => x.tx = "none"
  /\ x.result = "confirmed" => x.tx = "success"
  /\ x.result \in WithoutEffect /\ page.binding # "own" => x.tx \notin {"live", "success"}

(* Whoever is past the check of the network is on it; no read or buildXdr gets to
   a prompt. *)
OnAppNetwork(x) ==
  /\ x.at \in {"restore", "restoring"} => x.kind = "restore"
  /\ x.at \in {"submit", "signing", "sending", "polling"} => x.kind = "invoke"
  /\ /\ x.kind \in {"invoke", "restore"}
     /\ x.at \in Pending \ {"network"}
     /\ page.wallet = "reports"
     /\ ~x.unsure
     => net = "app"

(* As long as the page shows the account it is the one that is selected. *)
OfShown(x) == x.shown # None => /\ x.shown = selected
                                /\ x.source \in {None, "option", "config", selected}
                                /\ x.signer \in {None, selected}

Good(x) == x \in Record /\ Outcome(x) /\ OnAppNetwork(x) /\ OfShown(x)

InvOK == /\ inv \in [Invocation -> Record]
         /\ \A i \in Invocation : Good(inv[i])

ClientInv == IInv /\ Vouched /\ InvOK

(* A step of one invocation is right if the record it leaves is. *)
LEMMA BecomesKeeps ==
  ASSUME InvOK, NEW i \in Invocation, NEW x, Good(x), Becomes(i, x)
  PROVE  InvOK'
<1>1. inv' \in [Invocation -> Record]
  BY DEF InvOK, Good, Becomes
<1>2. ASSUME NEW j \in Invocation PROVE Good(inv[j])'
  <2>1. inv'[j] \in {x, inv[j]}
    BY DEF InvOK, Becomes
  <2>2. Good(inv'[j])
    BY <2>1 DEF InvOK
  <2> QED
    BY <2>2 DEF Becomes, vars, Good, Outcome, OnAppNetwork, OfShown
<1> QED
  BY <1>1, <1>2 DEF InvOK

LEMMA NoInvocationIsGood == Good(NoInvocation)
<1>1. NoInvocation \in Record
  BY DEF NoInvocation, Fresh, Record, Account, Result, Pending, Prompted
<1>2. NoInvocation.at = "done" /\ NoInvocation.shown = None /\ NoInvocation.tx = "none"
  BY DEF NoInvocation, Fresh
<1>3. NoInvocation.result = None
  BY DEF NoInvocation, Fresh
<1>4. Outcome(NoInvocation) /\ OnAppNetwork(NoInvocation) /\ OfShown(NoInvocation)
  <2>1. None # "confirmed"
    BY ReportAssumption DEF Reported
  <2> QED
    BY <1>2, <1>3, <2>1 DEF Outcome, OnAppNetwork, OfShown, Pending, Prompted
<1> QED
  BY <1>1, <1>4 DEF Good

(* What is left of a call that has ended. *)
LEMMA EndedIsGood ==
  ASSUME NEW x \in Record, NEW result \in Result,
         result = "confirmed" => x.tx = "success",
         result \in WithoutEffect /\ page.binding # "own" => x.tx \notin {"live", "success"}
  PROVE  Good(Ended(x, result))
<1>1. NoInvocation \in Record /\ NoInvocation.at = "done" /\ NoInvocation.shown = None
  BY NoInvocationIsGood DEF Good, NoInvocation, Fresh
<1>2. x.prompt \in BOOLEAN /\ x.tx \in {"none", "live", "success", "reverted", "expired"}
  BY DEF Record
<1>3. /\ Ended(x, result) \in Record
      /\ Ended(x, result).at = "done"
      /\ Ended(x, result).shown = None
      /\ Ended(x, result).tx = x.tx
      /\ Ended(x, result).result = result
  BY <1>1, <1>2 DEF Ended, Record
<1>4. Outcome(Ended(x, result)) /\ OnAppNetwork(Ended(x, result)) /\ OfShown(Ended(x, result))
  BY <1>3 DEF Outcome, OnAppNetwork, OfShown, Pending, Prompted
<1> QED
  BY <1>3, <1>4 DEF Good

(* Before the submission a call may end with any error. *)
LEMMA StopsGood ==
  ASSUME NEW x, Good(x), x.at \in Pending \ {"polling"}, NEW result \in Result \ {"confirmed"}
  PROVE  Good(Ended(x, result))
  BY EndedIsGood DEF Good, Outcome

(* Past the check of the network, and before the submission, it may go on. *)
LEMMA GoesOnGood ==
  ASSUME NEW x, Good(x), x.at \in Pending \ {"network", "polling"},
         NEW stage \in Pending \ {"network", "polling"},
         stage \in {"restore", "restoring"} => x.kind = "restore",
         stage \in {"submit", "signing", "sending"} => x.kind = "invoke"
  PROVE  Good([x EXCEPT !.at = stage])
  BY DEF Good, Record, Outcome, OnAppNetwork, OfShown, Pending, Prompted

(* The account a call is built for *)
LEMMA SourcedGood ==
  ASSUME NEW x, Good(x), x.at = "account", NEW source \in {None, "option", "config", selected},
         TypeOK
  PROVE  Good([x EXCEPT !.at = "build", !.source = source])
<1>1. source \in Account
  BY DEF Account, TypeOK
<1> QED
  BY <1>1 DEF Good, Record, Outcome, OnAppNetwork, OfShown, Pending, Prompted

-----------------------------------------------------------------------------
(* How calls begin *)

LEMMA FreshGood ==
  ASSUME TypeOK, Vouched, NEW kind \in {"invoke", "restore", "read", "build"},
         NEW stage \in {"network", "account"},
         stage = "account" /\ page.wallet = "reports" => kind \in {"read", "build"}
  PROVE  Good(Fresh(kind, Shown, stage))
<1>1. Shown \in Wallet \cup {None}
  BY DEF Shown, TypeOK, Session
<1>2. Fresh(kind, Shown, stage) \in Record
  BY <1>1 DEF Fresh, Record, Account, Result, Pending, Prompted
<1>3. /\ Fresh(kind, Shown, stage).at = stage
      /\ Fresh(kind, Shown, stage).kind = kind
      /\ Fresh(kind, Shown, stage).source = None
      /\ Fresh(kind, Shown, stage).signer = None
      /\ Fresh(kind, Shown, stage).shown = Shown
      /\ Fresh(kind, Shown, stage).tx = "none"
      /\ Fresh(kind, Shown, stage).result = None
  BY DEF Fresh
<1>4. Outcome(Fresh(kind, Shown, stage))
  BY <1>3, ReportAssumption DEF Outcome, Reported
<1>5. OnAppNetwork(Fresh(kind, Shown, stage))
  BY <1>3 DEF OnAppNetwork
<1>6. OfShown(Fresh(kind, Shown, stage))
  BY <1>3 DEF OfShown, Vouched
<1> QED
  BY <1>2, <1>4, <1>5, <1>6 DEF Good

LEMMA LocatedGood ==
  ASSUME NEW x, Good(x), x.at \in {"network", "account"},
         \/ x.kind \in {"read", "build"}
         \/ page.wallet # "reports"
         \/ net = "app"
         \/ x.unsure
  PROVE  /\ Good(Located(x))
         /\ Located(x).at \in {"account", "done"}
<1>1. CASE page.deployed
  <2>1. Good([x EXCEPT !.at = "account"])
    BY DEF Good, Record, Outcome, OnAppNetwork, OfShown, Pending, Prompted
  <2>2. [x EXCEPT !.at = "account"].at = "account"
    BY DEF Good, Record
  <2> QED
    BY <1>1, <2>1, <2>2 DEF Located
<1>2. CASE ~page.deployed
  <2>1. Good(Ended(x, "CONTRACT_ARTIFACT_NOT_FOUND"))
    BY StopsGood DEF Result, Reported, WithoutEffect, Pending
  <2>2. Ended(x, "CONTRACT_ARTIFACT_NOT_FOUND").at = "done"
    BY DEF Ended, NoInvocation, Fresh
  <2> QED
    BY <1>2, <2>1, <2>2 DEF Located
<1> QED
  BY <1>1, <1>2

LEMMA WalletedGood ==
  ASSUME NEW x, Good(x), x.at \in {"account", "done"}
  PROVE  Good(Walleted(x))
<1>1. x.at = "account" => Good(Ended(x, "WALLET_NOT_CONNECTED"))
  BY StopsGood DEF Result, Reported, WithoutEffect, Pending
<1> QED
  BY <1>1 DEF Walleted

LEMMA FallbackGood ==
  ASSUME NEW x, Good(x), x.at = "account", TypeOK
  PROVE  Good(Fallback(x))
<1>1. Good(Ended(x, "INVALID_CONFIG"))
  BY StopsGood DEF Result, Reported, WithoutEffect, Pending
<1>2. Good([x EXCEPT !.at = "build", !.source = IF page.readSource = "valid"
                                                  THEN "config" ELSE None])
  BY SourcedGood
<1> QED
  BY <1>1, <1>2 DEF Fallback

LEMMA ReadSourceGood ==
  ASSUME NEW x, Good(x), x.at \in {"account", "done"}, TypeOK,
         NEW option \in {"none", "valid", "invalid"}
  PROVE  Good(Sourced(x, option))
<1>1. CASE x.at # "account"
  BY <1>1 DEF Sourced
<1>2. CASE x.at = "account"
  <2>1. Good(Ended(x, "INVALID_CONFIG"))
    BY <1>2, StopsGood DEF Result, Reported, WithoutEffect, Pending
  <2>2. Good([x EXCEPT !.at = "build", !.source = "option"])
    BY <1>2, SourcedGood
  <2>3. Good(Fallback(x))
    BY <1>2, FallbackGood
  <2> QED
    BY <1>2, <2>1, <2>2, <2>3 DEF Sourced
<1> QED
  BY <1>1, <1>2

LEMMA BeginsKeeps ==
  ASSUME TypeOK, Vouched, InvOK, NEW i \in Invocation,
         \/ \E kind \in {"invoke", "restore"} : Invoke(i, kind)
         \/ \E option \in {"none", "valid", "invalid"} : Read(i, option)
         \/ BuildXdr(i)
  PROVE  InvOK'
<1>1. ASSUME NEW kind \in {"invoke", "restore"}, Invoke(i, kind) PROVE InvOK'
  <2>1. Good(Fresh(kind, Shown, "network")) /\ Fresh(kind, Shown, "network").at = "network"
    BY FreshGood DEF Fresh
  <2>2. page.wallet # "reports" => Good(Walleted(Located(Fresh(kind, Shown, "network"))))
    BY <2>1, LocatedGood, WalletedGood
  <2> QED
    BY <1>1, <2>1, <2>2, BecomesKeeps DEF Invoke
<1>2. ASSUME NEW option \in {"none", "valid", "invalid"}, Read(i, option) PROVE InvOK'
  <2>1. /\ Good(Fresh("read", Shown, "account"))
        /\ Fresh("read", Shown, "account").at = "account"
        /\ Fresh("read", Shown, "account").kind = "read"
    BY FreshGood DEF Fresh
  <2>2. Good(Sourced(Located(Fresh("read", Shown, "account")), option))
    BY <2>1, LocatedGood, ReadSourceGood
  <2> QED
    BY <1>2, <2>2, BecomesKeeps DEF Read
<1>3. ASSUME BuildXdr(i) PROVE InvOK'
  <2>1. /\ Good(Fresh("build", Shown, "account"))
        /\ Fresh("build", Shown, "account").at = "account"
        /\ Fresh("build", Shown, "account").kind = "build"
    BY FreshGood DEF Fresh
  <2>2. Good(Walleted(Located(Fresh("build", Shown, "account"))))
    BY <2>1, LocatedGood, WalletedGood
  <2> QED
    BY <1>3, <2>2, BecomesKeeps DEF BuildXdr
<1> QED
  BY <1>1, <1>2, <1>3

-----------------------------------------------------------------------------
(* How they go on, and end *)

LEMMA EndsKeeps ==
  ASSUME InvOK, NEW i \in Invocation, inv[i].at \in Pending \ {"polling"},
         NEW result \in Reported \ {"confirmed"}, Ends(i, result)
  PROVE  InvOK'
<1>1. Good(Ended(inv[i], result))
  BY StopsGood DEF InvOK, Result
<1> QED
  BY <1>1, BecomesKeeps DEF Ends

LEMMA GoesKeeps ==
  ASSUME InvOK, NEW i \in Invocation, inv[i].at \in Pending \ {"network", "polling"},
         NEW stage \in Pending \ {"network", "polling"},
         stage \in {"restore", "restoring"} => inv[i].kind = "restore",
         stage \in {"submit", "signing", "sending"} => inv[i].kind = "invoke",
         Goes(i, stage)
  PROVE  InvOK'
<1>1. Good([inv[i] EXCEPT !.at = stage])
  BY GoesOnGood DEF InvOK
<1> QED
  BY <1>1, BecomesKeeps DEF Goes

LEMMA TimesOutKeeps ==
  ASSUME InvOK, NEW i \in Invocation, inv[i].at \in Pending \ {"polling"}, TimesOut(i)
  PROVE  InvOK'
<1> DEFINE x == [inv[i] EXCEPT !.prompt = inv[i].at \in Prompted]
<1>1. Good(inv[i])
  BY DEF InvOK
<1>2. x \in Record /\ x.tx = inv[i].tx
  <2>1. ASSUME NEW p \in BOOLEAN
        PROVE  /\ [inv[i] EXCEPT !.prompt = p] \in Record
               /\ [inv[i] EXCEPT !.prompt = p].tx = inv[i].tx
    BY <1>1 DEF Good, Record
  <2>2. (inv[i].at \in Prompted) \in BOOLEAN
    OBVIOUS
  <2> QED
    BY <2>1, <2>2, Zenon
<1>3. x.tx = "none"
  BY <1>1, <1>2 DEF Good, Outcome
<1>4. "WALLET_TIMEOUT" \in Result \ {"confirmed"}
  BY DEF Result, Reported, WithoutEffect
<1>5. Good(Ended(x, "WALLET_TIMEOUT"))
  BY <1>2, <1>3, <1>4, EndedIsGood
<1> QED
  BY <1>5, BecomesKeeps DEF TimesOut

LEMMA PreparedKeeps ==
  ASSUME InvOK, NEW i \in Invocation, inv[i].at \in {"build", "restoring"}, Prepared(i)
  PROVE  InvOK'
<1> DEFINE x == [inv[i] EXCEPT !.at = "prepare",
                               !.kind = IF @ = "restore" THEN "invoke" ELSE @]
<1>1. Good(inv[i])
  BY DEF InvOK
<1>2. x \in Record
  BY <1>1 DEF Good, Record, Pending
<1>3. /\ x.at = "prepare"
      /\ x.kind = IF inv[i].kind = "restore" THEN "invoke" ELSE inv[i].kind
      /\ x.source = inv[i].source
      /\ x.signer = inv[i].signer
      /\ x.shown = inv[i].shown
      /\ x.unsure = inv[i].unsure
      /\ x.tx = inv[i].tx
      /\ x.result = inv[i].result
  BY <1>1 DEF Good, Record
<1>4. Outcome(x)
  BY <1>1, <1>3 DEF Good, Outcome, Pending
<1>5. OnAppNetwork(x)
  BY <1>1, <1>3 DEF Good, OnAppNetwork, Pending
<1>6. OfShown(x)
  BY <1>1, <1>3 DEF Good, OfShown
<1>7. Good(x)
  BY <1>2, <1>4, <1>5, <1>6 DEF Good
<1> QED
  BY <1>7, BecomesKeeps DEF Prepared

LEMMA AnswersKeep ==
  ASSUME TypeOK, InvOK, NEW i \in Invocation,
         \/ NetworkAnswered(i) \/ NetworkUnknown(i) \/ AccountAnswered(i) \/ AccountRefused(i)
         \/ RequestTimesOut(i) \/ RestorePromptTimesOut(i) \/ SignTimesOut(i)
  PROVE  InvOK'
<1>1. Good(inv[i])
  BY DEF InvOK
<1>2. {"WALLET_NETWORK_MISMATCH", "WALLET_NOT_CONNECTED"} \subseteq Reported \ {"confirmed"}
  BY DEF Reported, WithoutEffect
<1>3. ASSUME NetworkAnswered(i) PROVE InvOK'
  <2>1. net = "app" => Good(Located(inv[i]))
    BY <1>1, <1>3, LocatedGood DEF NetworkAnswered
  <2> QED
    BY <1>2, <1>3, <2>1, BecomesKeeps, EndsKeeps DEF NetworkAnswered, Pending
<1>7. ASSUME NetworkUnknown(i) PROVE InvOK'
  <2> DEFINE x == [inv[i] EXCEPT !.unsure = TRUE]
  <2>1. /\ x \in Record /\ x.unsure
        /\ x.at = inv[i].at /\ x.kind = inv[i].kind /\ x.source = inv[i].source
        /\ x.signer = inv[i].signer /\ x.shown = inv[i].shown
        /\ x.tx = inv[i].tx /\ x.result = inv[i].result
    BY <1>1 DEF Good, Record
  <2>2. Becomes(i, Located(x)) /\ inv[i].at = "network"
    BY <1>7 DEF NetworkUnknown
  <2> HIDE DEF x
  <2>3. Good(x)
    BY <1>1, <2>1 DEF Good, Outcome, OnAppNetwork, OfShown
  <2>4. Good(Located(x))
    BY <2>1, <2>2, <2>3, LocatedGood
  <2> QED
    BY <2>2, <2>4, BecomesKeeps
<1>4. ASSUME AccountAnswered(i) PROVE InvOK'
  <2>1. Good([inv[i] EXCEPT !.at = "build", !.source = selected])
    BY <1>1, <1>4, SourcedGood DEF AccountAnswered
  <2> QED
    BY <1>4, <2>1, BecomesKeeps DEF AccountAnswered
<1>5. ASSUME AccountRefused(i) PROVE InvOK'
  <2>1. Good(Fallback(inv[i]))
    BY <1>1, <1>5, FallbackGood DEF AccountRefused
  <2> QED
    BY <1>2, <1>5, <2>1, BecomesKeeps, EndsKeeps DEF AccountRefused, Pending
<1>6. ASSUME RequestTimesOut(i) \/ RestorePromptTimesOut(i) \/ SignTimesOut(i) PROVE InvOK'
  BY <1>6, TimesOutKeeps DEF RequestTimesOut, RestorePromptTimesOut, SignTimesOut, Pending,
     Prompted
<1> QED
  BY <1>3, <1>4, <1>5, <1>6, <1>7

LEMMA PreparesKeep ==
  ASSUME InvOK, NEW i \in Invocation,
         \/ CreateClientFails(i) \/ CallMethod(i) \/ RestoreSigned(i) \/ RestoreSubmitted(i)
         \/ SignRefused(i) \/ Prepare(i) \/ PrepareRead(i)
  PROVE  InvOK'
<1>1. Good(inv[i])
  BY DEF InvOK
<1>2. Unprepared \cup {"PLACEHOLDER_BINDING", Classified, "BINDING_METHOD_NOT_FOUND", "binding",
                      "XDR_SIGN_FAILED", "built", "XDR_BUILD_FAILED", "READ_RESULT_MISSING",
                      "XDR_RESULT_FAILED", "simulated"} \subseteq Reported \ {"confirmed"}
  BY DEF Reported, WithoutEffect, Unprepared, Classified
<1>3. ASSUME CreateClientFails(i) \/ SignRefused(i) PROVE InvOK'
  BY <1>2, <1>3, EndsKeeps DEF CreateClientFails, SignRefused, Pending, Prompted
<1>4. ASSUME CallMethod(i) PROVE InvOK'
  <2>1. inv[i].at = "build" /\ inv[i].at \in Pending \ {"network", "polling"}
    BY <1>4 DEF CallMethod, Pending
  <2>2. CASE Prepared(i)
    BY <2>1, <2>2, PreparedKeeps
  <2>3. CASE inv[i].kind = "restore" /\ Goes(i, "restore")
    BY <2>1, <2>3, GoesKeeps DEF Pending, Prompted
  <2>4. CASE \E error \in {Classified, "BINDING_METHOD_NOT_FOUND", "binding"} : Ends(i, error)
    BY <1>2, <2>1, <2>4, EndsKeeps
  <2> QED
    BY <1>4, <2>2, <2>3, <2>4 DEF CallMethod
<1>5. ASSUME RestoreSigned(i) PROVE InvOK'
  BY <1>1, <1>5, GoesKeeps DEF RestoreSigned, Pending, Prompted, Good, OnAppNetwork
<1>6. ASSUME RestoreSubmitted(i) PROVE InvOK'
  <2>1. inv[i].at = "restoring" /\ inv[i].at \in Pending \ {"network", "polling"}
    BY <1>6 DEF RestoreSubmitted, Pending
  <2> QED
    BY <1>2, <1>6, <2>1, PreparedKeeps, EndsKeeps DEF RestoreSubmitted
<1>7. ASSUME Prepare(i) PROVE InvOK'
  <2>1. inv[i].at = "prepare" /\ inv[i].at \in Pending \ {"network", "polling"}
    BY <1>7 DEF Prepare, Pending
  <2>2. CASE inv[i].kind = "invoke" /\ Goes(i, "submit")
    BY <2>1, <2>2, GoesKeeps DEF Pending
  <2>3. ASSUME NEW error \in Unprepared \cup {"XDR_BUILD_FAILED", "built"}, Ends(i, error)
        PROVE  InvOK'
    BY <1>2, <2>1, <2>3, EndsKeeps
  <2> QED
    BY <1>7, <2>2, <2>3 DEF Prepare
<1>8. ASSUME PrepareRead(i) PROVE InvOK'
  BY <1>2, <1>8, EndsKeeps DEF PrepareRead, Pending
<1> QED
  BY <1>3, <1>4, <1>5, <1>6, <1>7, <1>8

-----------------------------------------------------------------------------
(* Submission *)

LEMMA SubmitKeeps == ASSUME InvOK, NEW i \in Invocation, Submit(i) PROVE InvOK'
<1>1. /\ inv[i].at = "submit" /\ inv[i].at \in Pending \ {"network", "polling"}
      /\ inv[i].kind = "invoke"
  BY DEF Submit, Pending, InvOK, Good, OnAppNetwork
<1>2. CASE Goes(i, "signing") \/ Goes(i, "sending")
  BY <1>1, <1>2, GoesKeeps DEF Pending, Prompted
<1>3. ASSUME NEW error \in {Classified, "MULTI_AUTH_REQUIRED", "XDR_SUBMIT_FAILED"},
             Ends(i, error)
      PROVE  InvOK'
  BY <1>1, <1>3, EndsKeeps DEF Reported, WithoutEffect, Classified
<1> QED
  BY <1>2, <1>3 DEF Submit

LEMMA SignedKeeps ==
  ASSUME TypeOK, InvOK, NEW i \in Invocation, Signed(i) \/ LateSignature(i) PROVE InvOK'
<1>1. Good(inv[i])
  BY DEF InvOK
<1>2. CASE Signed(i)
  <2> DEFINE x == [inv[i] EXCEPT !.at = "sending", !.signer = selected]
  <2>1. inv[i].at = "signing"
    BY <1>2 DEF Signed
  <2>2. Good(x)
    BY <1>1, <2>1 DEF TypeOK, Good, Record, Outcome, OnAppNetwork, OfShown, Pending, Prompted
  <2> QED
    BY <1>2, <2>2, BecomesKeeps DEF Signed
<1>3. CASE LateSignature(i)
  <2> DEFINE x == [inv[i] EXCEPT !.prompt = FALSE]
  <2>1. /\ x \in Record
        /\ x.at = inv[i].at /\ x.kind = inv[i].kind /\ x.source = inv[i].source
        /\ x.signer = inv[i].signer /\ x.shown = inv[i].shown /\ x.unsure = inv[i].unsure
        /\ x.tx = inv[i].tx /\ x.result = inv[i].result
    BY <1>1 DEF Good, Record
  <2> HIDE DEF x
  <2>2. Outcome(x)
    BY <1>1, <2>1 DEF Good, Outcome
  <2>3. OnAppNetwork(x) /\ OfShown(x)
    BY <1>1, <2>1 DEF Good, OnAppNetwork, OfShown
  <2>4. Good(x)
    BY <2>1, <2>2, <2>3 DEF Good
  <2> QED
    BY <1>3, <2>4, BecomesKeeps DEF LateSignature, x
<1> QED
  BY <1>2, <1>3

LEMMA AcceptedKeeps == ASSUME InvOK, NEW i \in Invocation, Accepted(i) PROVE InvOK'
<1>1. Good(inv[i]) /\ inv[i].at = "sending"
  BY DEF InvOK, Accepted
<1>2. Good([inv[i] EXCEPT !.tx = "live", !.at = "polling"])
  BY <1>1, ReportAssumption
     DEF Good, Record, Outcome, OnAppNetwork, OfShown, Pending, Prompted, Reported
<1>3. Good(Ended([inv[i] EXCEPT !.tx = "live"], "XDR_SUBMIT_FAILED"))
  <2>1. [inv[i] EXCEPT !.tx = "live"] \in Record
    BY <1>1 DEF Good, Record
  <2>2. "XDR_SUBMIT_FAILED" \in Result /\ "XDR_SUBMIT_FAILED" \notin WithoutEffect
    BY DEF Result, Reported, WithoutEffect, Classified
  <2> QED
    BY <2>1, <2>2, EndedIsGood
<1> QED
  BY <1>2, <1>3, BecomesKeeps DEF Accepted

LEMMA RefusedKeeps == ASSUME InvOK, NEW i \in Invocation, Refused(i) PROVE InvOK'
<1>1. inv[i].at \in Pending \ {"polling"}
  BY DEF Refused, Pending
<1>2. /\ Normalized(Payload("ERROR", None, None)) = "failed"
      /\ Normalized(Payload("TRY_AGAIN_LATER", None, None)) = "pending"
  BY ReportAssumption DEF Normalized, Payload, Lifecycle
<1>3. {"XDR_SUBMIT_FAILED", Classified, Report(Payload("ERROR", None, None)),
       Report(Payload("TRY_AGAIN_LATER", None, None))} \subseteq Reported \ {"confirmed"}
  BY <1>2 DEF Report, Reported, WithoutEffect, Classified
<1> QED
  BY <1>1, <1>3, EndsKeeps DEF Refused

(* A transaction that may still land has not been reported on. *)
LEMMA LandsKeeps == ASSUME InvOK, NEW i \in Invocation, Lands(i) PROVE InvOK'
<1>1. Good(inv[i]) /\ inv[i].tx = "live"
  BY DEF InvOK, Lands
<1>2. ASSUME NEW fate \in {"success", "reverted", "expired"}
      PROVE  Good([inv[i] EXCEPT !.tx = fate])
  BY <1>1 DEF Good, Record, Outcome, OnAppNetwork, OfShown
<1> QED
  BY <1>2, BecomesKeeps DEF Lands

(* "confirmed" is only reported of what getTransaction calls a success. *)
LEMMA PollKeeps == ASSUME InvOK, NEW i \in Invocation, Poll(i) PROVE InvOK'
<1> DEFINE known == Known(inv[i])
<1>1. Good(inv[i])
  BY DEF InvOK
<1>2. /\ known \in {"SUCCESS", "FAILED", "NOT_FOUND"}
      /\ known = "SUCCESS" => inv[i].tx = "success"
      /\ known = "FAILED" => inv[i].tx = "reverted"
  BY DEF Known
<1>3. known # None
  BY <1>2, ReportAssumption
<1>4. /\ Normalized(Payload("PENDING", known, None)) = Lifecycle(known)
      /\ Normalized(Payload(None, None, known)) = Lifecycle(known)
      /\ Normalized(Payload("PENDING", None, None)) = Lifecycle("PENDING")
      /\ Normalized(Payload(None, None, None)) = Lifecycle(None)
  BY <1>3, ReportAssumption DEF Normalized, Payload
<1>5. /\ known = "SUCCESS" => Lifecycle(known) = "confirmed"
      /\ known = "FAILED" => Lifecycle(known) = "failed"
      /\ known = "NOT_FOUND" => Lifecycle(known) = "pending"
      /\ Lifecycle("PENDING") = "pending"
      /\ Lifecycle(None) = "pending"
  BY ReportAssumption DEF Lifecycle
<1> DEFINE Right(r) ==
      /\ r \in Result
      /\ r = "confirmed" => inv[i].tx = "success"
      /\ r \in WithoutEffect /\ page.binding # "own" => inv[i].tx \notin {"live", "success"}
<1>6. {"confirmed", "failed", "pending", "XDR_SIGN_FAILED", "XDR_RESULT_FAILED",
       "XDR_SUBMIT_FAILED"} \subseteq Result
  BY DEF Result, Reported, WithoutEffect
<1>7. {"confirmed", "pending", "XDR_RESULT_FAILED", "XDR_SUBMIT_FAILED"} \cap WithoutEffect = {}
  BY DEF WithoutEffect, Classified
<1>8. Right(Report(Payload("PENDING", known, None)))
  BY <1>2, <1>4, <1>5, <1>6, <1>7 DEF Report
<1>9. Right(Report(Payload(None, None, known)))
  BY <1>2, <1>4, <1>5, <1>6, <1>7 DEF Report
<1>10. Right(Report(Payload("PENDING", None, None))) /\ Right(Report(Payload(None, None, None)))
  BY <1>4, <1>5, <1>6, <1>7 DEF Report
<1>11. Right("XDR_RESULT_FAILED") /\ Right("XDR_SUBMIT_FAILED")
  BY <1>6, <1>7
<1>12. ASSUME NEW r, Right(r), Ends(i, r) PROVE InvOK'
  <2>1. Good(Ended(inv[i], r))
    BY <1>1, <1>12, EndedIsGood DEF Good
  <2> QED
    BY <1>12, <2>1, BecomesKeeps DEF Ends
<1> QED
  BY <1>8, <1>9, <1>10, <1>11, <1>12 DEF Poll

-----------------------------------------------------------------------------
(* The page and the wallet *)

LEMMA MovesKeeps == InvOK /\ Moves => InvOK'
<1> SUFFICES ASSUME InvOK, Moves PROVE InvOK'
  OBVIOUS
<1>1. ASSUME NEW i \in Invocation PROVE Good(inv[i])' /\ inv'[i] \in Record
  <2>1. Good(inv[i])
    BY DEF InvOK
  <2>2. CASE i \in Active
    <3>1. inv'[i] = [inv[i] EXCEPT !.unsure = TRUE]
      BY <2>2 DEF Moves
    <3>2. inv'[i] \in Record /\ inv'[i].unsure
      BY <2>1, <3>1 DEF Good, Record
    <3>3. /\ inv'[i].at = inv[i].at /\ inv'[i].kind = inv[i].kind
          /\ inv'[i].source = inv[i].source /\ inv'[i].signer = inv[i].signer
          /\ inv'[i].shown = inv[i].shown /\ inv'[i].tx = inv[i].tx
          /\ inv'[i].result = inv[i].result
      BY <2>1, <3>1 DEF Good, Record
    <3> QED
      BY <2>1, <3>2, <3>3 DEF Moves, vars, Good, Outcome, OnAppNetwork, OfShown
  <2>3. CASE i \notin Active
    <3>1. inv'[i] = inv[i] /\ inv[i].at \notin Pending
      BY <2>3 DEF Moves, Active
    <3> QED
      BY <2>1, <3>1 DEF Moves, vars, Good, Outcome, OnAppNetwork, OfShown, Pending, Prompted
  <2> QED
    BY <2>2, <2>3
<1>2. inv' \in [Invocation -> Record]
  BY <1>1 DEF Moves
<1> QED
  BY <1>1, <1>2 DEF InvOK

(* Whatever else the page does with the wallet, it forgets the account shown. *)
LEMMA SessionKeeps == InvOK /\ SessionSteps => InvOK'
<1> SUFFICES ASSUME InvOK, SessionSteps PROVE InvOK'
  OBVIOUS
<1>1. ASSUME NEW i \in Invocation PROVE Good(inv[i])' /\ inv'[i] \in Record
  <2>1. Good(inv[i])
    BY DEF InvOK
  <2>2. CASE selected' = selected /\ \A c \in Call : at'[c] = "idle"
    <3>1. inv'[i] = inv[i]
      BY <2>2 DEF SessionSteps
    <3> QED
      BY <2>1, <2>2, <3>1 DEF SessionSteps, Good, Outcome, OnAppNetwork, OfShown
  <2>3. CASE ~(selected' = selected /\ \A c \in Call : at'[c] = "idle")
    <3>1. inv'[i] = [inv[i] EXCEPT !.shown = None]
      BY <2>3 DEF SessionSteps
    <3>2. inv'[i] \in Record /\ inv'[i].shown = None
      BY <2>1, <3>1 DEF Good, Record
    <3>3. /\ inv'[i].at = inv[i].at /\ inv'[i].kind = inv[i].kind
          /\ inv'[i].unsure = inv[i].unsure /\ inv'[i].tx = inv[i].tx
          /\ inv'[i].result = inv[i].result
      BY <2>1, <3>1 DEF Good, Record
    <3> QED
      BY <2>1, <3>2, <3>3 DEF SessionSteps, Good, Outcome, OnAppNetwork, OfShown
  <2> QED
    BY <2>2, <2>3
<1>2. inv' \in [Invocation -> Record]
  BY <1>1 DEF SessionSteps
<1> QED
  BY <1>1, <1>2 DEF InvOK

LEMMA NoneInvokedIsOK == inv = [i \in Invocation |-> NoInvocation] => InvOK
  BY NoInvocationIsGood DEF InvOK, Good

LEMMA ReloadsKeeps == Reloads => InvOK'
<1> SUFFICES ASSUME Reloads PROVE InvOK'
  OBVIOUS
<1>1. Good(NoInvocation)'
  BY NoInvocationIsGood, PTL
<1> QED
  BY <1>1 DEF Reloads, InvOK, Good

-----------------------------------------------------------------------------

LEMMA ClientInvInit == ClientInit => ClientInv
<1> SUFFICES ASSUME ClientInit PROVE ClientInv
  OBVIOUS
<1>1. Init
  BY DEF ClientInit
<1>2. InvOK
  BY NoneInvokedIsOK DEF ClientInit
<1> QED
  BY <1>1, <1>2, InvInit, VouchedInit DEF ClientInv

LEMMA ClientInvNext == ClientInv /\ [ClientNext]_clientVars => ClientInv'
<1> SUFFICES ASSUME ClientInv, [ClientNext]_clientVars PROVE ClientInv'
  OBVIOUS
<1> USE DEF ClientInv
<1>1. IInv' /\ Vouched'
  BY SessionUndisturbed, InvNext, VouchedNext
<1>2. TypeOK
  BY DEF IInv
<1>3. CASE SessionSteps
  BY <1>1, <1>3, SessionKeeps
<1>4. CASE Reloads
  BY <1>1, <1>4, ReloadsKeeps
<1>5. CASE Moves
  BY <1>1, <1>5, MovesKeeps
<1>6. CASE UNCHANGED clientVars
  BY <1>1, <1>6 DEF clientVars, vars, InvOK, Good, Outcome, OnAppNetwork, OfShown
<1>7. ASSUME NEW i \in Invocation,
             \/ \E kind \in {"invoke", "restore"} : Invoke(i, kind)
             \/ \E option \in {"none", "valid", "invalid"} : Read(i, option)
             \/ BuildXdr(i)
             \/ NetworkAnswered(i) \/ NetworkUnknown(i) \/ AccountAnswered(i) \/ AccountRefused(i)
             \/ RequestTimesOut(i) \/ CreateClientFails(i) \/ CallMethod(i)
             \/ RestoreSigned(i) \/ RestoreSubmitted(i) \/ RestorePromptTimesOut(i)
             \/ Prepare(i) \/ PrepareRead(i) \/ Submit(i)
             \/ Signed(i) \/ SignRefused(i) \/ SignTimesOut(i) \/ LateSignature(i)
             \/ Accepted(i) \/ Refused(i) \/ Lands(i) \/ Poll(i)
      PROVE  InvOK'
  BY <1>2, <1>7, BeginsKeeps, AnswersKeep, PreparesKeep, SubmitKeeps, SignedKeeps,
     AcceptedKeeps, RefusedKeeps, LandsKeeps, PollKeeps
<1> QED
  BY <1>1, <1>3, <1>4, <1>5, <1>6, <1>7 DEF ClientNext

(* Whatever the wallet, the network and the RPC do, in whatever order the calls of
   the page are answered, time out or are forgotten by a reload: an invocation is
   reported as confirmed only if it succeeded, and as failed, refused or timed out
   only if it has no effect and never will. *)
THEOREM ReportsAreTrue == ClientSpec => []OutcomeIsTrue
<1>1. ClientInv => OutcomeIsTrue
  BY DEF ClientInv, InvOK, Good, Outcome, OutcomeIsTrue
<1> QED
  BY <1>1, ClientInvInit, ClientInvNext, PTL DEF ClientSpec

(* Nobody is asked to sign by a wallet that has told another network than the app's. *)
THEOREM PromptsOnAppNetwork == ClientSpec => []AskedOnAppNetwork
<1>1. ClientInv => AskedOnAppNetwork
  <2> SUFFICES ASSUME ClientInv, NEW i \in Invocation, inv[i].at \in Prompted,
                      page.wallet = "reports", ~inv[i].unsure
               PROVE  net = "app"
    BY DEF AskedOnAppNetwork
  <2> QED
    BY DEF ClientInv, InvOK, Good, OnAppNetwork, Pending, Prompted
<1> QED
  BY <1>1, ClientInvInit, ClientInvNext, PTL DEF ClientSpec

(* What a call is built for and signed by is the account its user saw. *)
THEOREM SignersAreShown == ClientSpec => []SignedByShown
<1>1. ClientInv => SignedByShown
  BY DEF ClientInv, InvOK, Good, OfShown, SignedByShown
<1> QED
  BY <1>1, ClientInvInit, ClientInvNext, PTL DEF ClientSpec
=============================================================================
