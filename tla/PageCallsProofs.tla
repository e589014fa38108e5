--------------------------- MODULE PageCallsProofs ---------------------------
(***************************************************************************)
(* The calls of one origin, for any number of them, any relying parties    *)
(* and any base URLs.  One inductive invariant says of each call what its  *)
(* place on its route has already established: who let it through, which   *)
(* login named its base, what the statement it carries was.  These facts   *)
(* only grow, so no step of another call can take one back.                *)
(***************************************************************************)
EXTENDS PageCalls, ConsentWindow, ConsentReplay, FiniteSetTheorems, SequenceTheorems, TLAPS

-----------------------------------------------------------------------------
(* The invariant.                                                          *)

Pins == [rp : Rp, base : Base \cup {None}]
Statements == [by : Call \cup {None}, rp : Rp]
Before == [pin : Pins \cup {None}, trusted : BOOLEAN, holder : BOOLEAN]
Labels == Over \cup {"resolve", "check", "verify", "gate", "whether", "pin", "store", "list",
                     "prefer", "whom", "bind", "forget", "tick", "issue", "fetch", "spend"}
Memo == [seen : Pins \cup {None}, found : BOOLEAN, of : Base \cup Statements \cup {None},
         silent : BOOLEAN, yes : SUBSET {"whether", "whom"}]

\* The types of what is stored for the origin and of what its calls keep.
PageTypeOK ==
  /\ pin \in Pins \cup {None}
  /\ trusted \in BOOLEAN /\ holder \in BOOLEAN
  /\ entries \in Seq(Call \cup {None})
  /\ issued \subseteq Statements
  /\ before \in Before
  /\ req \in [Call -> Request \cup {None}]
  /\ at \in [Call -> Labels]
  /\ memo \in [Call -> Memo]

\* The human ticked a prompt that offered to remember the site, or chose an identity.
Ticked ==
  before.trusted \/ \E d \in Call : Approved(d) /\ (Offered(d) \/ "whom" \in memo[d].yes)

\* A statement is an earlier one, or one this origin's attestation was approved for.
Shown(a) ==
  a.by # None => Kind(a.by) = "attest" /\ "whether" \in memo[a.by].yes /\ req[a.by].rp = a.rp

\* Which calls a place on the route may hold.
Route(c) ==
  /\ at[c] = "unmade" => memo[c] = Blank
  /\ at[c] # "unmade" => req[c] \in Request
  /\ at[c] = "resolve" => Kind(c) \in {"proxy", "profile"}
  /\ at[c] = "check" => Kind(c) \in {"login", "proxy", "sign", "attest", "stepUp"}
  /\ at[c] = "verify" => Kind(c) = "stepUp"
  /\ at[c] = "gate" => Kind(c) \in {"login", "proxy", "list", "stepUp"}
  /\ at[c] = "whether" => Kind(c) \in {"login", "proxy", "list", "stepUp", "sign", "attest"}
  /\ at[c] \in {"gate", "whether"} /\ Kind(c) = "proxy" => memo[c].found
  /\ at[c] \in {"pin", "store"} => Kind(c) \in {"login", "proxy"} /\ req[c].rp \in Rp
  /\ at[c] \in {"list", "prefer", "forget"} => Kind(c) = "login"
  /\ at[c] \in {"whom", "bind"} => Kind(c) \in {"login", "proxy", "profile"}
  /\ at[c] = "tick" => Kind(c) \in {"proxy", "profile"}
  /\ at[c] = "issue" => Kind(c) = "attest"
  /\ at[c] \in {"fetch", "spend"} => Kind(c) = "response"

\* What let it come this far.
Consented(c) ==
  /\ at[c] \in {"pin", "store", "list", "prefer", "forget", "bind", "issue", "tick"} => LetThrough(c)
  /\ at[c] = "sent" => LetThrough(c) \/ Kind(c) = "response"
  /\ at[c] \in {"bind", "tick"} => "whom" \in memo[c].yes
  /\ at[c] \in {"pin", "store"} /\ Kind(c) = "proxy" /\ ~memo[c].found => "whom" \in memo[c].yes
  /\ at[c] = "whom" /\ Kind(c) = "login" => LetThrough(c)
  /\ at[c] = "issue" => "whether" \in memo[c].yes

\* What a call that was not asked about rests on.
Unasked(c) ==
  memo[c].silent =>
    /\ at[c] \notin {"unmade", "resolve", "check"}
    /\ ~req[c].key /\ Kind(c) # "sign"
    /\ Kind(c) \in {"login", "proxy"} => ~Changed(c)
    /\ Ticked

\* What the base or the statement it holds rests on.
Holds(c) ==
  /\ at[c] \in {"gate", "whether", "sent"} /\ Kind(c) = "stepUp" => NamedTogether(req[c].rp, req[c].base)
  /\ at[c] = "store" /\ memo[c].of # None => memo[c].of \in Base /\ NamedTogether(req[c].rp, memo[c].of)
  /\ at[c] = "store" => memo[c].of \in Base \cup {None}
  /\ at[c] \in {"spend", "sent"} /\ Kind(c) = "response" => memo[c].of \in Statements /\ Shown(memo[c].of)

CallInv(c) == Route(c) /\ Consented(c) /\ Unasked(c) /\ Holds(c)

SiteInv ==
  /\ BaseBelongsToRp
  /\ IdentityWasChosen
  /\ trusted => Ticked
  /\ \A a \in issued : Shown(a)

PageInv == PageTypeOK /\ SiteInv /\ \A c \in Call : CallInv(c)

-----------------------------------------------------------------------------
(* Facts that only grow.                                                   *)

\* No step takes back an answer, or changes what a call asked for once it is made.
Grows ==
  /\ before' = before
  /\ \A d \in Call : /\ memo[d].yes \subseteq memo'[d].yes
                     /\ memo[d].silent => memo'[d].silent
                     /\ at[d] # "unmade" => at'[d] # "unmade" /\ req'[d] = req[d]

\* What one call's step leaves of the others.
Turn(c) ==
  /\ Grows
  /\ \A d \in Call \ {c} : at'[d] = at[d] /\ req'[d] = req[d] /\ memo'[d] = memo[d]

\* Only a call that was made has an answer.
LEMMA AnsweredIsMade ==
  ASSUME PageInv, NEW d \in Call, Approved(d) \/ memo[d].silent
  PROVE  at[d] # "unmade" /\ req[d] \in Request
BY DEF PageInv, CallInv, Route, Approved, Blank

\* Whatever an answer established stays established.
LEMMA Lasting ==
  ASSUME PageInv, Grows
  PROVE  /\ \A d \in Call : LetThrough(d) => LetThrough(d)'
         /\ \A rp \in Rp, base \in Base : NamedTogether(rp, base) => NamedTogether(rp, base)'
         /\ Ticked => Ticked'
         /\ \A a \in Statements : Shown(a) => Shown(a)'
<1>1. \A d \in Call : (Approved(d) => Approved(d)') /\ (LetThrough(d) => LetThrough(d)')
  BY DEF Grows, Approved, LetThrough
<1>2. \A d \in Call : Approved(d) => at[d] # "unmade" /\ req'[d] = req[d]
  BY AnsweredIsMade DEF Grows
<1>3. ASSUME NEW rp \in Rp, NEW base \in Base, NamedTogether(rp, base)
      PROVE  NamedTogether(rp, base)'
  <2>1. CASE before.pin = [rp |-> rp, base |-> base]
    BY <2>1 DEF NamedTogether, Grows
  <2>2. CASE \E c \in Call : /\ at[c] # "unmade" /\ Kind(c) = "login" /\ LetThrough(c)
                              /\ req[c].rp = rp /\ req[c].base = base
    <3>1. PICK c \in Call : /\ at[c] # "unmade" /\ Kind(c) = "login" /\ LetThrough(c)
                            /\ req[c].rp = rp /\ req[c].base = base
      BY <2>2
    <3>2. at'[c] # "unmade" /\ req'[c] = req[c] /\ LetThrough(c)'
      BY <1>1, <3>1 DEF Grows
    <3>3. Kind(c)' = "login"
      BY <3>1, <3>2 DEF Kind
    <3> QED BY <3>1, <3>2, <3>3 DEF NamedTogether
  <2> QED BY <1>3, <2>1, <2>2 DEF NamedTogether
<1>4. ASSUME Ticked PROVE Ticked'
  <2>1. CASE before.trusted
    BY <2>1 DEF Ticked, Grows
  <2>2. CASE \E d \in Call : Approved(d) /\ (Offered(d) \/ "whom" \in memo[d].yes)
    <3>1. PICK d \in Call : Approved(d) /\ (Offered(d) \/ "whom" \in memo[d].yes)
      BY <2>2
    <3>2. Approved(d)' /\ req'[d] = req[d]
      BY <1>1, <1>2, <3>1
    <3>3. Offered(d)' \/ "whom" \in memo'[d].yes
      BY <3>1, <3>2 DEF Offered, Kind, Grows
    <3> QED BY <3>2, <3>3 DEF Ticked
  <2> QED BY <1>4, <2>1, <2>2 DEF Ticked
<1>5. ASSUME NEW a \in Statements, Shown(a), a.by # None
      PROVE  Kind(a.by)' = "attest" /\ "whether" \in memo'[a.by].yes /\ req'[a.by].rp = a.rp
  <2>1. a.by \in Call
    BY <1>5 DEF Statements
  <2>2. Kind(a.by) = "attest" /\ "whether" \in memo[a.by].yes /\ req[a.by].rp = a.rp
    BY <1>5 DEF Shown
  <2>3. req'[a.by] = req[a.by]
    BY <1>2, <2>1, <2>2 DEF Approved
  <2> QED BY <2>1, <2>2, <2>3 DEF Kind, Grows
<1> QED BY <1>1, <1>3, <1>4, <1>5 DEF Shown

\* So a call keeps its invariant through the others' steps, and when it dies.
LEMMA OthersKeep ==
  ASSUME PageInv, Grows, NEW d \in Call,
         at'[d] = at[d] \/ (at'[d] = "dead" /\ at[d] # "unmade"),
         req'[d] = req[d], memo'[d] = memo[d]
  PROVE  CallInv(d)'
<1>1. CallInv(d)
  BY DEF PageInv
<1>2. Route(d)'
  BY <1>1 DEF CallInv, Route, Kind
<1>3. Consented(d)'
  <2>1. LetThrough(d) <=> LetThrough(d)'
    BY DEF LetThrough, Approved
  <2>2. Kind(d)' = Kind(d)
    BY DEF Kind
  <2> QED BY <1>1, <2>1, <2>2 DEF CallInv, Consented
<1>4. Unasked(d)'
  <2>1. Kind(d)' = Kind(d) /\ (Changed(d)' <=> Changed(d))
    BY DEF Kind, Changed
  <2> QED BY <1>1, <2>1, Lasting DEF CallInv, Unasked
<1>5. Holds(d)'
  <2>1. Kind(d)' = Kind(d)
    BY DEF Kind
  <2>2. req[d] \in Request /\ Kind(d) = "stepUp" => req[d].rp \in Rp /\ req[d].base \in Base
    BY DEF Request, Kind
  <2>3. at[d] \in {"gate", "whether", "sent"} => req[d] \in Request
    BY <1>1 DEF CallInv, Route
  <2>4. at[d] = "store" => req[d].rp \in Rp
    BY <1>1 DEF CallInv, Route
  <2> QED BY <1>1, <2>1, <2>2, <2>3, <2>4, Lasting DEF CallInv, Holds
<1> QED BY <1>2, <1>3, <1>4, <1>5 DEF CallInv

-----------------------------------------------------------------------------
(* One call's step.                                                        *)

\* The step of a call that is under way, with what it writes down.
LEMMA TurnsOf ==
  ASSUME PageInv, NEW c \in Call, at[c] # "unmade", before' = before, req' = req,
         NEW label \in Labels \ {"unmade"}, Goto(c, label),
         memo' \in [Call -> Memo],
         \A d \in Call \ {c} : memo'[d] = memo[d],
         memo[c].yes \subseteq memo'[c].yes,
         memo[c].silent => memo'[c].silent
  PROVE  /\ Turn(c)
         /\ at' \in [Call -> Labels] /\ at'[c] = label
         /\ req' \in [Call -> Request \cup {None}]
         /\ before' \in Before
<1>1. at \in [Call -> Labels] /\ req \in [Call -> Request \cup {None}]
      /\ before \in Before
  BY DEF PageInv, PageTypeOK
<1>2. at' \in [Call -> Labels] /\ at'[c] = label /\ \A d \in Call \ {c} : at'[d] = at[d]
  BY <1>1 DEF Goto
<1>3. Grows
  BY <1>2 DEF Grows
<1> QED BY <1>1, <1>2, <1>3 DEF Turn

\* What Remember does to the call's memory.
LEMMA Remembering ==
  ASSUME PageInv, NEW c \in Call
  PROVE  /\ \A v \in Pins \cup {None} : Remember(c, "seen", v) =>
              memo' \in [Call -> Memo] /\ memo'[c] = [memo[c] EXCEPT !.seen = v]
         /\ \A v \in BOOLEAN : Remember(c, "found", v) =>
              memo' \in [Call -> Memo] /\ memo'[c] = [memo[c] EXCEPT !.found = v]
         /\ \A v \in Base \cup Statements \cup {None} : Remember(c, "of", v) =>
              memo' \in [Call -> Memo] /\ memo'[c] = [memo[c] EXCEPT !.of = v]
         /\ Remember(c, "silent", TRUE) =>
              memo' \in [Call -> Memo] /\ memo'[c] = [memo[c] EXCEPT !.silent = TRUE]
         /\ \A q \in {"whether", "whom"} : Remember(c, "yes", memo[c].yes \cup {q}) =>
              memo' \in [Call -> Memo] /\ memo'[c] = [memo[c] EXCEPT !.yes = @ \cup {q}]
         /\ \A field, v : Remember(c, field, v) => \A d \in Call \ {c} : memo'[d] = memo[d]
<1>1. memo \in [Call -> Memo] /\ memo[c] \in Memo
  BY DEF PageInv, PageTypeOK
<1>2. ASSUME NEW v \in Pins \cup {None}, Remember(c, "seen", v)
      PROVE  memo' \in [Call -> Memo] /\ memo'[c] = [memo[c] EXCEPT !.seen = v]
  <2>1. [memo[c] EXCEPT !["seen"] = v] \in Memo
    BY <1>1, <1>2 DEF Memo
  <2> QED BY <1>1, <1>2, <2>1 DEF Remember
<1>3. ASSUME NEW v \in BOOLEAN, Remember(c, "found", v)
      PROVE  memo' \in [Call -> Memo] /\ memo'[c] = [memo[c] EXCEPT !.found = v]
  <2>1. [memo[c] EXCEPT !["found"] = v] \in Memo
    BY <1>1, <1>3 DEF Memo
  <2> QED BY <1>1, <1>3, <2>1 DEF Remember
<1>4. ASSUME NEW v \in Base \cup Statements \cup {None}, Remember(c, "of", v)
      PROVE  memo' \in [Call -> Memo] /\ memo'[c] = [memo[c] EXCEPT !.of = v]
  <2>1. [memo[c] EXCEPT !["of"] = v] \in Memo
    BY <1>1, <1>4 DEF Memo
  <2> QED BY <1>1, <1>4, <2>1 DEF Remember
<1>5. ASSUME Remember(c, "silent", TRUE)
      PROVE  memo' \in [Call -> Memo] /\ memo'[c] = [memo[c] EXCEPT !.silent = TRUE]
  <2>1. [memo[c] EXCEPT !["silent"] = TRUE] \in Memo
    BY <1>1 DEF Memo
  <2> QED BY <1>1, <1>5, <2>1 DEF Remember
<1>6. ASSUME NEW q \in {"whether", "whom"}, Remember(c, "yes", memo[c].yes \cup {q})
      PROVE  memo' \in [Call -> Memo] /\ memo'[c] = [memo[c] EXCEPT !.yes = @ \cup {q}]
  <2>1. memo[c].yes \cup {q} \in SUBSET {"whether", "whom"}
    BY <1>1 DEF Memo
  <2>2. [memo[c] EXCEPT !["yes"] = memo[c].yes \cup {q}] \in Memo
    BY <1>1, <2>1 DEF Memo
  <2> QED BY <1>1, <1>6, <2>2 DEF Remember
<1>7. ASSUME NEW field, NEW v, Remember(c, field, v)
      PROVE  \A d \in Call \ {c} : memo'[d] = memo[d]
  BY <1>1, <1>7 DEF Remember
<1> QED BY <1>2, <1>3, <1>4, <1>5, <1>6, <1>7

\* What a step of a call that is under way leaves of the call itself.
LEMMA SelfKept ==
  ASSUME PageInv, NEW c \in Call, Turn(c), at[c] # "unmade"
  PROVE  /\ req'[c] = req[c] /\ req[c] \in Request /\ Kind(c)' = Kind(c)
         /\ CallInv(c) /\ memo[c] \in Memo
         /\ LetThrough(c) => LetThrough(c)'
         /\ memo'[c].seen = memo[c].seen => (Changed(c)' <=> Changed(c))
         /\ Kind(c) = "stepUp" /\ NamedTogether(req[c].rp, req[c].base)
               => NamedTogether(req[c].rp, req[c].base)'
<1>1. req'[c] = req[c] /\ CallInv(c) /\ memo[c] \in Memo
  BY DEF Turn, Grows, PageInv, PageTypeOK
<1>2. req[c] \in Request
  BY <1>1 DEF CallInv, Route
<1>3. Kind(c)' = Kind(c)
  BY <1>1 DEF Kind
<1>4. LetThrough(c) => LetThrough(c)'
  BY Lasting DEF Turn
<1>5. memo'[c].seen = memo[c].seen => (Changed(c)' <=> Changed(c))
  BY <1>1 DEF Changed
<1>6. Kind(c) = "stepUp" => req[c].rp \in Rp /\ req[c].base \in Base
  BY <1>2 DEF Kind, Request
<1>7. ASSUME Kind(c) = "stepUp", NamedTogether(req[c].rp, req[c].base)
      PROVE  NamedTogether(req[c].rp, req[c].base)'
  <2> DEFINE rp == req[c].rp
             base == req[c].base
  <2>1. rp \in Rp /\ base \in Base /\ NamedTogether(rp, base)
    BY <1>6, <1>7
  <2>2. rp = req'[c].rp /\ base = req'[c].base
    BY <1>1
  <2> HIDE DEF rp, base
  <2>3. \/ before'.pin = [rp |-> rp, base |-> base]
        \/ \E d \in Call : /\ at'[d] # "unmade" /\ Kind(d)' = "login" /\ LetThrough(d)'
                           /\ req'[d].rp = rp /\ req'[d].base = base
    BY <2>1, Lasting DEF Turn, NamedTogether
  <2> QED BY <2>2, <2>3 DEF NamedTogether
<1> QED BY <1>1, <1>2, <1>3, <1>4, <1>5, <1>7

\* The silence of a call is settled once it is past its checks.
LEMMA SilenceKept ==
  ASSUME PageInv, NEW c \in Call, Turn(c), at[c] # "unmade",
         memo'[c].silent = memo[c].silent,
         memo'[c].seen = memo[c].seen \/ at[c] = "check",
         at'[c] \notin {"unmade", "resolve", "check"} \/ at[c] = "resolve"
  PROVE  Unasked(c)'
<1>1. CallInv(c) /\ req'[c] = req[c] /\ Kind(c)' = Kind(c)
  BY SelfKept
<1>2. CASE memo[c].silent
  <2>1. /\ at[c] \notin {"unmade", "resolve", "check"} /\ ~req[c].key /\ Kind(c) # "sign"
        /\ Kind(c) \in {"login", "proxy"} => ~Changed(c)
        /\ Ticked
    BY <1>1, <1>2 DEF CallInv, Unasked
  <2>2. (Changed(c)' <=> Changed(c)) /\ Ticked'
    BY <2>1, SelfKept, Lasting DEF Turn
  <2> QED BY <1>1, <2>1, <2>2 DEF Unasked
<1>3. CASE ~memo[c].silent
  BY <1>3 DEF Unasked
<1> QED BY <1>2, <1>3

\* What is stored for the origin stays accounted for, each part while it is left alone.
LEMMA SiteKept ==
  ASSUME PageInv, Grows
  PROVE  /\ pin' = pin => BaseBelongsToRp'
         /\ entries' = entries /\ holder' = holder => IdentityWasChosen'
         /\ (trusted' => trusted) => (trusted' => Ticked')
         /\ issued' \subseteq issued => \A a \in issued' : Shown(a)'
<1>1. pin' = pin => BaseBelongsToRp'
  <2> SUFFICES ASSUME pin' = pin, pin # None, pin.base # None
               PROVE  NamedTogether(pin.rp, pin.base)'
    BY DEF BaseBelongsToRp
  <2>1. pin.rp \in Rp /\ pin.base \in Base /\ NamedTogether(pin.rp, pin.base)
    BY DEF PageInv, PageTypeOK, SiteInv, BaseBelongsToRp, Pins
  <2> QED BY <2>1, Lasting DEF NamedTogether
<1>2. entries' = entries /\ holder' = holder => IdentityWasChosen'
  <2> SUFFICES ASSUME entries' = entries, holder' = holder PROVE IdentityWasChosen'
    OBVIOUS
  <2>1. IdentityWasChosen /\ entries \in Seq(Call \cup {None}) /\ before' = before
    BY DEF PageInv, SiteInv, PageTypeOK, Grows
  <2>2. ASSUME NEW n \in DOMAIN entries, entries[n] # None
        PROVE  "whom" \in memo'[entries[n]].yes
    <3>1. entries[n] \in Call
      BY <2>1, <2>2, ElementOfSeq
    <3> QED BY <2>1, <2>2, <3>1 DEF IdentityWasChosen, Grows
  <2>3. holder /\ ~before.holder => \E c \in Call : "whom" \in memo'[c].yes /\ Kind(c)' = "login"
    <3> SUFFICES ASSUME holder, ~before.holder
                 PROVE  \E c \in Call : "whom" \in memo'[c].yes /\ Kind(c)' = "login"
      OBVIOUS
    <3>1. PICK c \in Call : "whom" \in memo[c].yes /\ Kind(c) = "login"
      BY <2>1 DEF IdentityWasChosen
    <3>2. at[c] # "unmade"
      BY <3>1, AnsweredIsMade DEF Approved
    <3> QED BY <3>1, <3>2 DEF Grows, Kind
  <2> QED BY <2>1, <2>2, <2>3 DEF IdentityWasChosen
<1>3. (trusted' => trusted) => (trusted' => Ticked')
  BY Lasting DEF PageInv, SiteInv
<1>4. issued' \subseteq issued => \A a \in issued' : Shown(a)'
  BY Lasting DEF PageInv, SiteInv, PageTypeOK
<1> QED BY <1>1, <1>2, <1>3, <1>4

\* So what remains of a step is the call that takes it and the parts it writes.
LEMMA TurnKeeps ==
  ASSUME PageInv, NEW c \in Call, Turn(c), PageTypeOK', SiteInv', CallInv(c)'
  PROVE  PageInv'
<1>1. ASSUME NEW d \in Call \ {c} PROVE CallInv(d)'
  BY <1>1, OthersKeep DEF Turn
<1> QED BY <1>1 DEF PageInv

\* The step of a call that writes nothing down.
LEMMA WalkOn ==
  ASSUME PageInv, NEW c \in Call, at[c] # "unmade",
         NEW label \in Labels \ {"unmade", "resolve", "check"}, Goto(c, label),
         UNCHANGED <<before, req, memo>>
  PROVE  /\ Turn(c) /\ at'[c] = label /\ Unasked(c)'
         /\ at' \in [Call -> Labels] /\ memo' \in [Call -> Memo]
         /\ req' \in [Call -> Request \cup {None}]
         /\ before' \in Before
<1>1. memo \in [Call -> Memo]
  BY DEF PageInv, PageTypeOK
<1>2. /\ Turn(c) /\ at' \in [Call -> Labels] /\ at'[c] = label
      /\ req' \in [Call -> Request \cup {None}]
      /\ before' \in Before
  BY <1>1, TurnsOf
<1>3. Unasked(c)'
  BY <1>2, SilenceKept
<1> QED BY <1>1, <1>2, <1>3

\* A refused or finished call owes nothing more.
LEMMA EndHere ==
  ASSUME PageInv, NEW c \in Call, at[c] # "unmade", Goto(c, "refused") \/ Goto(c, "done"),
         UNCHANGED <<before, req, memo>>
  PROVE  /\ Turn(c) /\ CallInv(c)'
         /\ at' \in [Call -> Labels] /\ memo' \in [Call -> Memo]
         /\ req' \in [Call -> Request \cup {None}]
         /\ before' \in Before
<1>1. PICK label \in {"refused", "done"} : Goto(c, label)
  OBVIOUS
<1>2. /\ Turn(c) /\ at'[c] = label /\ Unasked(c)'
      /\ at' \in [Call -> Labels] /\ memo' \in [Call -> Memo]
      /\ req' \in [Call -> Request \cup {None}]
      /\ before' \in Before
  BY <1>1, WalkOn DEF Labels, Over
<1>3. Route(c)' /\ Consented(c)' /\ Holds(c)'
  BY <1>1, <1>2, SelfKept DEF Route, Consented, Holds
<1> QED BY <1>2, <1>3 DEF CallInv

\* Where an allowed call goes on, it has been let through.
LEMMA GoOn ==
  ASSUME PageInv, NEW c \in Call, Turn(c), at[c] \in {"gate", "whether"},
         at'[c] = Allowed(c), LetThrough(c)', Unasked(c)',
         at[c] = "whether" => "whether" \in memo'[c].yes,
         memo'[c].found = memo[c].found
  PROVE  CallInv(c)' /\ Allowed(c) \in {"pin", "issue", "sent"}
<1>1. /\ CallInv(c) /\ req'[c] = req[c] /\ req[c] \in Request /\ Kind(c)' = Kind(c)
      /\ Kind(c) = "stepUp" /\ NamedTogether(req[c].rp, req[c].base)
            => NamedTogether(req[c].rp, req[c].base)'
  BY SelfKept
<1>2. /\ at[c] \in {"gate", "whether"} /\ Kind(c) = "proxy" => memo[c].found
      /\ Kind(c) \in {"login", "proxy", "list", "stepUp", "sign", "attest"}
      /\ Kind(c) = "attest" => at[c] = "whether"
      /\ Kind(c) = "stepUp" => NamedTogether(req[c].rp, req[c].base)
  BY <1>1 DEF CallInv, Route, Holds
<1>3. /\ Allowed(c) \in {"pin", "issue", "sent"}
      /\ Allowed(c) = "pin" => Kind(c) \in {"login", "proxy"} /\ req[c].rp \in Rp
      /\ Allowed(c) = "issue" => Kind(c) = "attest"
  BY <1>1 DEF Allowed, Kind, Request
<1>4. Route(c)'
  BY <1>1, <1>2, <1>3 DEF Route
<1>5. Consented(c)'
  BY <1>1, <1>2, <1>3 DEF Consented
<1>6. Holds(c)'
  BY <1>1, <1>2, <1>3 DEF Holds
<1> QED BY <1>3, <1>4, <1>5, <1>6 DEF CallInv

-----------------------------------------------------------------------------
(* Each step.                                                              *)

LEMMA ArriveKeeps ==
  ASSUME PageInv, NEW c \in Call, NEW r \in Request, Arrive(c, r)
  PROVE  PageInv'
<1>1. PageTypeOK /\ SiteInv /\ CallInv(c)
  BY DEF PageInv
<1>2. PICK label \in {"resolve", "gate", "fetch", "check"} :
        /\ Goto(c, label)
        /\ r.kind \in {"proxy", "profile"} <=> label = "resolve"
        /\ r.kind = "list" <=> label = "gate"
        /\ r.kind = "response" <=> label = "fetch"
  BY DEF Arrive
<1>3. /\ at' \in [Call -> Labels] /\ at'[c] = label /\ \A d \in Call \ {c} : at'[d] = at[d]
      /\ req' \in [Call -> Request \cup {None}] /\ req'[c] = r
      /\ \A d \in Call \ {c} : req'[d] = req[d]
      /\ memo' = memo /\ memo[c] = Blank /\ at[c] = "unmade"
  BY <1>1, <1>2 DEF Arrive, Goto, PageTypeOK, Labels, CallInv, Route
<1>4. Turn(c)
  BY <1>3 DEF Turn, Grows, Arrive, site
<1>5. PageTypeOK'
  BY <1>1, <1>3 DEF PageTypeOK, Arrive, site
<1>6. SiteInv'
  BY <1>4, SiteKept DEF Turn, SiteInv, Arrive, site
<1>7. CallInv(c)'
  <2>1. Kind(c)' = r.kind /\ r.kind \in {"login", "stepUp", "sign", "attest", "proxy", "list", "profile", "response"}
    BY <1>3 DEF Kind, Request
  <2>2. Route(c)'
    BY <1>2, <1>3, <2>1 DEF Route
  <2>3. Consented(c)' /\ Unasked(c)' /\ Holds(c)'
    BY <1>2, <1>3, <2>1 DEF Consented, Unasked, Holds, Blank
  <2> QED BY <2>2, <2>3 DEF CallInv
<1> QED BY <1>4, <1>5, <1>6, <1>7, TurnKeeps

LEMMA ResolveKeeps ==
  ASSUME PageInv, NEW c \in Call, Resolve(c)
  PROVE  PageInv'
<1>1. PageTypeOK /\ SiteInv /\ CallInv(c) /\ at[c] = "resolve"
      /\ UNCHANGED <<pin, trusted, holder, entries, issued, before, req>>
  BY DEF PageInv, Resolve, site
<1>2. CASE Kind(c) = "profile" /\ entries # <<>>
  <2>1. Goto(c, "done") /\ UNCHANGED memo
    BY <1>2 DEF Resolve
  <2>2. /\ Turn(c) /\ CallInv(c)'
        /\ at' \in [Call -> Labels] /\ memo' \in [Call -> Memo]
        /\ req' \in [Call -> Request \cup {None}]
        /\ before' \in Before
    BY <1>1, <2>1, EndHere
  <2>3. PageTypeOK' /\ SiteInv'
    BY <1>1, <2>2, SiteKept DEF PageTypeOK, SiteInv, Turn
  <2> QED BY <2>2, <2>3, TurnKeeps
<1>3. CASE Kind(c) = "profile" /\ entries = <<>>
  <2>1. Goto(c, "whom") /\ UNCHANGED memo
    BY <1>3 DEF Resolve
  <2>2. /\ Turn(c) /\ at'[c] = "whom" /\ Unasked(c)'
        /\ at' \in [Call -> Labels] /\ memo' \in [Call -> Memo]
        /\ req' \in [Call -> Request \cup {None}]
        /\ before' \in Before
    BY <1>1, <2>1, WalkOn DEF Labels
  <2>3. PageTypeOK' /\ SiteInv'
    BY <1>1, <2>2, SiteKept DEF PageTypeOK, SiteInv, Turn
  <2>4. CallInv(c)'
    BY <1>1, <1>3, <2>2, SelfKept DEF CallInv, Route, Consented, Holds
  <2> QED BY <2>2, <2>3, <2>4, TurnKeeps
<1>4. CASE Kind(c) # "profile"
  <2>1. PICK found \in BOOLEAN : Remember(c, "found", found) /\ Goto(c, "check")
    BY <1>1, <1>4 DEF Resolve, PageTypeOK
  <2>2. memo' \in [Call -> Memo] /\ memo'[c] = [memo[c] EXCEPT !.found = found]
    BY <2>1, Remembering
  <2>3. \A d \in Call \ {c} : memo'[d] = memo[d]
    BY <2>1, Remembering
  <2>4. memo[c] \in Memo
    BY <1>1 DEF PageTypeOK
  <2>5. memo'[c].seen = memo[c].seen /\ memo'[c].silent = memo[c].silent /\ memo'[c].yes = memo[c].yes
    BY <2>2, <2>4 DEF Memo
  <2>6. /\ Turn(c) /\ at' \in [Call -> Labels] /\ at'[c] = "check"
        /\ req' \in [Call -> Request \cup {None}]
        /\ before' \in Before
    BY <1>1, <2>1, <2>2, <2>3, <2>5, TurnsOf DEF Labels
  <2>7. PageTypeOK' /\ SiteInv'
    BY <1>1, <2>2, <2>6, SiteKept DEF PageTypeOK, SiteInv, Turn
  <2>8. Unasked(c)'
    BY <1>1, <2>5, <2>6 DEF CallInv, Unasked
  <2>9. Route(c)' /\ Consented(c)' /\ Holds(c)'
    BY <1>1, <1>4, <2>6, SelfKept DEF CallInv, Route, Consented, Holds
  <2> QED BY <2>6, <2>7, <2>8, <2>9, TurnKeeps DEF CallInv
<1> QED BY <1>2, <1>3, <1>4

\* A step that leaves what is stored alone.
LEMMA SiteStays ==
  ASSUME PageInv, NEW c \in Call, Turn(c), UNCHANGED site, CallInv(c)',
         at' \in [Call -> Labels], memo' \in [Call -> Memo],
         req' \in [Call -> Request \cup {None}]
  PROVE  PageInv'
<1>1. PageTypeOK'
  BY DEF PageInv, PageTypeOK, site
<1>2. SiteInv'
  BY SiteKept DEF Turn, SiteInv, site
<1> QED BY <1>1, <1>2, TurnKeeps

\* A refusal changes nothing that is stored.
LEMMA RefusalKeeps ==
  ASSUME PageInv, NEW c \in Call, at[c] # "unmade", Goto(c, "refused"),
         UNCHANGED <<site, req, memo>>
  PROVE  PageInv'
<1>1. UNCHANGED before
  BY DEF site
<1>2. /\ Turn(c) /\ CallInv(c)'
      /\ at' \in [Call -> Labels] /\ memo' \in [Call -> Memo]
      /\ req' \in [Call -> Request \cup {None}]
  BY <1>1, EndHere
<1> QED BY <1>2, SiteStays

LEMMA CheckKeeps ==
  ASSUME PageInv, NEW c \in Call, Check(c)
  PROVE  PageInv'
<1>1. PageTypeOK /\ SiteInv /\ CallInv(c) /\ at[c] = "check"
      /\ UNCHANGED <<site, req>> /\ UNCHANGED before
      /\ Kind(c) \in {"login", "proxy", "sign", "attest", "stepUp"}
  BY DEF PageInv, Check, site, CallInv, Route
<1>2. CASE Kind(c) \in {"login", "proxy"}
  <2> DEFINE old == IF req[c].rp = None THEN None ELSE pin
  <2>1. PICK label \in {"whom", "gate"} :
          /\ Remember(c, "seen", old) /\ Goto(c, label)
          /\ label = "whom" => Kind(c) = "proxy"
          /\ label = "gate" /\ Kind(c) = "proxy" => memo[c].found
    BY <1>2 DEF Check
  <2>2. old \in Pins \cup {None}
    BY <1>1 DEF PageTypeOK
  <2> HIDE DEF old
  <2>3. memo' \in [Call -> Memo] /\ memo'[c] = [memo[c] EXCEPT !.seen = old]
    BY <2>1, <2>2, Remembering
  <2>4. \A d \in Call \ {c} : memo'[d] = memo[d]
    BY <2>1, Remembering
  <2>5. memo[c] \in Memo
    BY <1>1 DEF PageTypeOK
  <2>6. memo'[c].found = memo[c].found /\ memo'[c].silent = memo[c].silent /\ memo'[c].yes = memo[c].yes
    BY <2>3, <2>5 DEF Memo
  <2>7. /\ Turn(c) /\ at' \in [Call -> Labels] /\ at'[c] = label
        /\ req' \in [Call -> Request \cup {None}]
    BY <1>1, <2>1, <2>3, <2>4, <2>6, TurnsOf DEF Labels, Over
  <2>8. Unasked(c)'
    BY <1>1, <2>1, <2>6, <2>7, SilenceKept
  <2>9. Route(c)' /\ Consented(c)' /\ Holds(c)'
    <3>1. req'[c] = req[c] /\ req[c] \in Request /\ Kind(c)' = Kind(c)
      BY <1>1, <2>7, SelfKept
    <3>2. memo'[c].silent = memo[c].silent /\ (Approved(c)' <=> Approved(c))
      BY <2>6 DEF Approved
    <3>3. Route(c)'
      BY <1>2, <2>1, <2>6, <2>7, <3>1 DEF Route
    <3>4. Kind(c) = "login" => at'[c] # "whom"
      BY <2>1, <2>7
    <3>5. Consented(c)'
      BY <2>1, <2>7, <3>1, <3>4 DEF Consented
    <3>6. Holds(c)'
      BY <1>2, <2>1, <2>7, <3>1 DEF Holds
    <3> QED BY <3>3, <3>5, <3>6
  <2> QED BY <1>1, <2>3, <2>7, <2>8, <2>9, SiteStays DEF CallInv
<1>3. CASE Kind(c) \in {"sign", "attest"} /\ PinnedTo(req[c].rp)
  <2>1. Goto(c, "whether") /\ UNCHANGED memo
    BY <1>3 DEF Check, Asked
  <2>2. /\ Turn(c) /\ at'[c] = "whether" /\ Unasked(c)'
        /\ at' \in [Call -> Labels] /\ memo' \in [Call -> Memo]
        /\ req' \in [Call -> Request \cup {None}]
    BY <1>1, <2>1, WalkOn DEF Labels, Over
  <2>3. CallInv(c)'
    BY <1>1, <1>3, <2>2, SelfKept DEF CallInv, Route, Consented, Holds
  <2> QED BY <1>1, <2>2, <2>3, SiteStays
<1>4. CASE Kind(c) = "stepUp" /\ Bound(req[c])
  <2>1. Goto(c, "verify") /\ UNCHANGED memo
    BY <1>4 DEF Check
  <2>2. /\ Turn(c) /\ at'[c] = "verify" /\ Unasked(c)'
        /\ at' \in [Call -> Labels] /\ memo' \in [Call -> Memo]
        /\ req' \in [Call -> Request \cup {None}]
    BY <1>1, <2>1, WalkOn DEF Labels, Over
  <2>3. CallInv(c)'
    BY <1>1, <1>4, <2>2, SelfKept DEF CallInv, Route, Consented, Holds
  <2> QED BY <1>1, <2>2, <2>3, SiteStays
<1>5. CASE \/ Kind(c) \in {"sign", "attest"} /\ ~PinnedTo(req[c].rp)
           \/ Kind(c) = "stepUp" /\ ~Bound(req[c])
  <2>1. Goto(c, "refused") /\ UNCHANGED memo
    BY <1>5 DEF Check
  <2> QED BY <1>1, <2>1, RefusalKeeps
<1> QED BY <1>1, <1>2, <1>3, <1>4, <1>5

LEMMA VerifiedKeeps ==
  ASSUME PageInv, NEW c \in Call, Verified(c)
  PROVE  PageInv'
<1>1. PageTypeOK /\ SiteInv /\ CallInv(c) /\ at[c] = "verify" /\ Kind(c) = "stepUp"
      /\ UNCHANGED <<site, req, memo>> /\ UNCHANGED before
  BY DEF PageInv, Verified, site, CallInv, Route
<1>2. CASE Goto(c, "refused")
  BY <1>1, <1>2, RefusalKeeps
<1>3. CASE Bound(req[c]) /\ Goto(c, "gate")
  <2>1. /\ Turn(c) /\ at'[c] = "gate" /\ Unasked(c)'
        /\ at' \in [Call -> Labels] /\ memo' \in [Call -> Memo]
        /\ req' \in [Call -> Request \cup {None}]
    BY <1>1, <1>3, WalkOn DEF Labels, Over
  <2>2. /\ req'[c] = req[c] /\ req[c] \in Request /\ Kind(c)' = Kind(c)
        /\ Kind(c) = "stepUp" /\ NamedTogether(req[c].rp, req[c].base)
              => NamedTogether(req[c].rp, req[c].base)'
    BY <1>1, <2>1, SelfKept
  <2>3. pin # None /\ pin.base # None /\ pin.rp = req[c].rp /\ pin.base = req[c].base
    BY <1>3 DEF Bound, PinnedTo
  <2>4. NamedTogether(req[c].rp, req[c].base)
    BY <1>1, <2>3 DEF SiteInv, BaseBelongsToRp
  <2>5. Route(c)' /\ Consented(c)' /\ Holds(c)'
    BY <1>1, <2>1, <2>2, <2>4 DEF Route, Consented, Holds
  <2> QED BY <1>1, <2>1, <2>5, SiteStays DEF CallInv
<1> QED BY <1>2, <1>3 DEF Verified

LEMMA GateKeeps ==
  ASSUME PageInv, NEW c \in Call, Gate(c)
  PROVE  PageInv'
<1>1. PageTypeOK /\ SiteInv /\ CallInv(c) /\ at[c] = "gate" /\ memo[c] \in Memo
      /\ UNCHANGED <<site, req>> /\ UNCHANGED before
      /\ Kind(c) \in {"login", "proxy", "list", "stepUp"}
      /\ (Kind(c) = "proxy" => memo[c].found)
  BY DEF PageInv, PageTypeOK, Gate, site, CallInv, Route
<1>2. CASE MaySkip(c) /\ trusted
  <2>1. Remember(c, "silent", TRUE) /\ Goto(c, Allowed(c))
    BY <1>2 DEF Gate
  <2>2. memo' \in [Call -> Memo] /\ memo'[c] = [memo[c] EXCEPT !.silent = TRUE]
    BY <2>1, Remembering
  <2>3. \A d \in Call \ {c} : memo'[d] = memo[d]
    BY <2>1, Remembering
  <2>4. /\ memo'[c].found = memo[c].found /\ memo'[c].silent
        /\ memo'[c].yes = memo[c].yes /\ memo'[c].seen = memo[c].seen
    BY <1>1, <2>2 DEF Memo
  <2>5. Allowed(c) \in {"pin", "issue", "sent"}
    BY DEF Allowed
  <2>6. /\ Turn(c) /\ at' \in [Call -> Labels] /\ at'[c] = Allowed(c)
        /\ req' \in [Call -> Request \cup {None}]
    BY <1>1, <2>1, <2>2, <2>3, <2>4, <2>5, TurnsOf DEF Labels, Over
  <2>7. /\ req'[c] = req[c] /\ req[c] \in Request /\ Kind(c)' = Kind(c)
        /\ Changed(c)' <=> Changed(c)
    BY <1>1, <2>4, <2>6, SelfKept
  <2>8. ~req[c].key /\ (Kind(c) \in {"login", "proxy"} => ~Changed(c))
    BY <1>1, <1>2, <2>7 DEF MaySkip, Kind, Request
  <2>9. Ticked'
    BY <1>1, <1>2, <2>6, Lasting DEF SiteInv, Turn
  <2>10. Unasked(c)'
    BY <1>1, <2>5, <2>6, <2>7, <2>8, <2>9 DEF Unasked
  <2>11. LetThrough(c)'
    BY <2>4 DEF LetThrough
  <2>12. CallInv(c)'
    BY <1>1, <2>4, <2>6, <2>10, <2>11, GoOn
  <2> QED BY <1>1, <2>2, <2>6, <2>12, SiteStays
<1>3. CASE ~(MaySkip(c) /\ trusted)
  <2>1. Goto(c, "whether") /\ UNCHANGED memo
    BY <1>3 DEF Gate
  <2>2. /\ Turn(c) /\ at'[c] = "whether" /\ Unasked(c)'
        /\ at' \in [Call -> Labels] /\ memo' \in [Call -> Memo]
        /\ req' \in [Call -> Request \cup {None}]
    BY <1>1, <2>1, WalkOn DEF Labels, Over
  <2>3. CallInv(c)'
    BY <1>1, <2>1, <2>2, SelfKept DEF CallInv, Route, Consented, Holds
  <2> QED BY <1>1, <2>2, <2>3, SiteStays
<1> QED BY <1>2, <1>3

LEMMA SettledKeeps ==
  ASSUME PageInv, NEW c \in Call, Settled(c)
  PROVE  PageInv'
<1>1. PageTypeOK /\ SiteInv /\ CallInv(c) /\ at[c] = "whether" /\ memo[c] \in Memo
      /\ UNCHANGED <<pin, holder, entries, issued, req>> /\ UNCHANGED before
  BY DEF PageInv, PageTypeOK, Settled
<1>2. CASE Goto(c, "refused") /\ UNCHANGED <<trusted, memo>>
  BY <1>1, <1>2, RefusalKeeps DEF site
<1>3. CASE /\ trusted' \in {trusted, trusted \/ Offered(c)}
           /\ Remember(c, "yes", memo[c].yes \cup {"whether"})
           /\ Goto(c, Allowed(c))
  <2>1. memo' \in [Call -> Memo] /\ memo'[c] = [memo[c] EXCEPT !.yes = @ \cup {"whether"}]
    BY <1>3, Remembering
  <2>2. \A d \in Call \ {c} : memo'[d] = memo[d]
    BY <1>3, Remembering
  <2>3. /\ memo'[c].found = memo[c].found /\ memo'[c].silent = memo[c].silent
        /\ memo'[c].yes = memo[c].yes \cup {"whether"} /\ memo'[c].seen = memo[c].seen
    BY <1>1, <2>1 DEF Memo
  <2>4. Allowed(c) \in {"pin", "issue", "sent"}
    BY DEF Allowed
  <2>5. /\ Turn(c) /\ at' \in [Call -> Labels] /\ at'[c] = Allowed(c)
        /\ req' \in [Call -> Request \cup {None}]
    BY <1>1, <1>3, <2>1, <2>2, <2>3, <2>4, TurnsOf DEF Labels, Over
  <2>6. Unasked(c)'
    BY <1>1, <2>3, <2>4, <2>5, SilenceKept
  <2>7. Approved(c)' /\ LetThrough(c)'
    BY <2>3 DEF Approved, LetThrough
  <2>8. CallInv(c)'
    BY <1>1, <2>3, <2>5, <2>6, <2>7, GoOn
  <2>9. trusted' => Ticked'
    <3>1. CASE Offered(c)
      <4>1. Offered(c)'
        BY <1>1, <3>1 DEF Offered, Kind
      <4> QED BY <2>7, <4>1 DEF Ticked
    <3>2. CASE ~Offered(c)
      BY <1>3, <2>5, <3>2, SiteKept DEF Turn
    <3> QED BY <3>1, <3>2
  <2>10. SiteInv'
    BY <1>1, <2>5, <2>9, SiteKept DEF SiteInv, Turn
  <2>11. trusted' \in BOOLEAN
    BY <1>1, <1>3 DEF PageTypeOK, Offered
  <2>12. PageTypeOK'
    BY <1>1, <2>1, <2>5, <2>11 DEF PageTypeOK
  <2> QED BY <2>5, <2>8, <2>10, <2>12, TurnKeeps
<1> QED BY <1>2, <1>3 DEF Settled

\* The pin as one call writes it.
LEMMA PinnedKeeps ==
  ASSUME PageInv, NEW c \in Call, at[c] \in {"pin", "store"}, NEW base \in Base \cup {None},
         Pinned(c, base), base # None => NamedTogether(req[c].rp, base)
  PROVE  PageInv'
<1>1. PageTypeOK /\ SiteInv /\ CallInv(c) /\ memo[c] \in Memo
      /\ UNCHANGED <<trusted, holder, entries, issued, req, memo>> /\ UNCHANGED before
      /\ Kind(c) \in {"login", "proxy"} /\ req[c].rp \in Rp /\ LetThrough(c)
      /\ (Kind(c) = "proxy" /\ ~memo[c].found => "whom" \in memo[c].yes)
  BY DEF PageInv, PageTypeOK, Pinned, CallInv, Route, Consented
<1>2. PICK label \in {"list", "sent", "tick"} :
        /\ Goto(c, label)
        /\ label = "list" => Kind(c) = "login"
        /\ label = "tick" => Kind(c) = "proxy" /\ ~memo[c].found
        /\ label = "sent" => Kind(c) = "proxy"
  <2>1. CASE Kind(c) = "login"
    BY <2>1 DEF Pinned
  <2>2. CASE Kind(c) = "proxy" /\ memo[c].found
    BY <2>2 DEF Pinned
  <2>3. CASE Kind(c) = "proxy" /\ ~memo[c].found
    BY <2>3 DEF Pinned
  <2> QED BY <1>1, <2>1, <2>2, <2>3
<1>3. /\ Turn(c) /\ at'[c] = label /\ Unasked(c)'
      /\ at' \in [Call -> Labels] /\ memo' \in [Call -> Memo]
      /\ req' \in [Call -> Request \cup {None}]
  BY <1>1, <1>2, WalkOn DEF Labels, Over
<1>4. CallInv(c)'
  <2>1. req'[c] = req[c] /\ req[c] \in Request /\ Kind(c)' = Kind(c) /\ LetThrough(c)'
    BY <1>1, <1>3, SelfKept
  <2>2. Route(c)' /\ Consented(c)' /\ Holds(c)'
    BY <1>1, <1>2, <1>3, <2>1 DEF Route, Consented, Holds
  <2> QED BY <1>3, <2>2 DEF CallInv
<1>5. pin' = [rp |-> req[c].rp, base |-> base] /\ pin' \in Pins
  BY <1>1 DEF Pinned, Pins
<1>6. PageTypeOK'
  BY <1>1, <1>3, <1>5 DEF PageTypeOK
<1>7. BaseBelongsToRp'
  <2> SUFFICES ASSUME base # None PROVE NamedTogether(pin.rp, pin.base)'
    BY <1>5 DEF BaseBelongsToRp
  <2> DEFINE rp == req[c].rp
  <2>1. rp \in Rp /\ base \in Base /\ NamedTogether(rp, base)
    BY <1>1
  <2>2. pin'.rp = rp /\ pin'.base = base
    BY <1>5
  <2> HIDE DEF rp
  <2>3. \/ before'.pin = [rp |-> rp, base |-> base]
        \/ \E d \in Call : /\ at'[d] # "unmade" /\ Kind(d)' = "login" /\ LetThrough(d)'
                           /\ req'[d].rp = rp /\ req'[d].base = base
    BY <1>3, <2>1, Lasting DEF Turn, NamedTogether
  <2> QED BY <2>2, <2>3 DEF NamedTogether
<1>8. SiteInv'
  BY <1>1, <1>3, <1>7, SiteKept DEF SiteInv, Turn
<1> QED BY <1>3, <1>4, <1>6, <1>8, TurnKeeps

LEMMA PinOriginKeeps ==
  ASSUME PageInv, NEW c \in Call, PinOrigin(c)
  PROVE  PageInv'
<1>1. PageTypeOK /\ SiteInv /\ CallInv(c) /\ at[c] = "pin" /\ memo[c] \in Memo
      /\ Kind(c) \in {"login", "proxy"} /\ req[c].rp \in Rp /\ LetThrough(c)
      /\ req[c] \in Request
      /\ (Kind(c) = "proxy" /\ ~memo[c].found => "whom" \in memo[c].yes)
  BY DEF PageInv, PageTypeOK, PinOrigin, CallInv, Route, Consented
<1>2. CASE req[c].base # None
  <2>1. req[c].base \in Base /\ Kind(c) = "login"
    BY <1>1, <1>2 DEF Request, Kind
  <2>2. NamedTogether(req[c].rp, req[c].base)
    BY <1>1, <2>1 DEF NamedTogether
  <2> QED BY <1>1, <1>2, <2>1, <2>2, PinnedKeeps DEF PinOrigin
<1>3. CASE req[c].base = None
  <2>1. Remember(c, "of", Kept(c)) /\ Goto(c, "store") /\ UNCHANGED <<site, req>> /\ UNCHANGED before
    BY <1>3 DEF PinOrigin, site
  <2>2. Kept(c) \in Base \cup {None} /\ (Kept(c) # None => NamedTogether(req[c].rp, Kept(c)))
    BY <1>1 DEF Kept, PinnedTo, PageTypeOK, Pins, SiteInv, BaseBelongsToRp
  <2> DEFINE base == Kept(c)
  <2>3. memo' \in [Call -> Memo] /\ memo'[c] = [memo[c] EXCEPT !.of = base]
    BY <2>1, <2>2, Remembering
  <2>4. \A d \in Call \ {c} : memo'[d] = memo[d]
    BY <2>1, Remembering
  <2>5. /\ memo'[c].found = memo[c].found /\ memo'[c].silent = memo[c].silent
        /\ memo'[c].yes = memo[c].yes /\ memo'[c].seen = memo[c].seen /\ memo'[c].of = base
    BY <1>1, <2>3 DEF Memo
  <2>6. /\ Turn(c) /\ at' \in [Call -> Labels] /\ at'[c] = "store"
        /\ req' \in [Call -> Request \cup {None}]
    BY <1>1, <2>1, <2>3, <2>4, <2>5, TurnsOf DEF Labels, Over
  <2>7. Unasked(c)'
    BY <1>1, <2>5, <2>6, SilenceKept
  <2>8. req'[c] = req[c] /\ Kind(c)' = Kind(c) /\ LetThrough(c)'
    BY <1>1, <2>6, SelfKept
  <2>9. Route(c)' /\ Consented(c)'
    BY <1>1, <2>5, <2>6, <2>8 DEF Route, Consented
  <2>10. Holds(c)'
    <3> DEFINE rp == req[c].rp
    <3>1. base # None => rp \in Rp /\ base \in Base /\ NamedTogether(rp, base)
      BY <1>1, <2>2
    <3>2. base \in Base \cup {None} /\ req'[c].rp = rp
      BY <2>2, <2>8
    <3> HIDE DEF rp, base
    <3>3. base # None =>
            \/ before'.pin = [rp |-> rp, base |-> base]
            \/ \E d \in Call : /\ at'[d] # "unmade" /\ Kind(d)' = "login" /\ LetThrough(d)'
                               /\ req'[d].rp = rp /\ req'[d].base = base
      BY <2>6, <3>1, Lasting DEF Turn, NamedTogether
    <3>4. base # None => NamedTogether(req[c].rp, memo[c].of)'
      BY <2>5, <3>2, <3>3 DEF NamedTogether
    <3> QED BY <2>5, <2>6, <3>1, <3>2, <3>4 DEF Holds
  <2> QED BY <2>1, <2>3, <2>6, <2>7, <2>9, <2>10, SiteStays DEF CallInv
<1> QED BY <1>2, <1>3

LEMMA StoreKeeps ==
  ASSUME PageInv, NEW c \in Call, Store(c)
  PROVE  PageInv'
<1>1. at[c] = "store" /\ Pinned(c, memo[c].of)
  BY DEF Store
<1>2. /\ memo[c].of \in Base \cup {None}
      /\ memo[c].of # None => NamedTogether(req[c].rp, memo[c].of)
  BY <1>1 DEF PageInv, CallInv, Holds
<1> QED BY <1>1, <1>2, PinnedKeeps

\* The steps of a login that only look.
LEMMA LookupsKeep ==
  ASSUME PageInv, NEW c \in Call, ListEntries(c) \/ Prefer(c)
  PROVE  PageInv'
<1>1. PageTypeOK /\ SiteInv /\ CallInv(c) /\ at[c] \in {"list", "prefer"}
      /\ Kind(c) = "login" /\ LetThrough(c) /\ UNCHANGED <<site, req, memo>> /\ UNCHANGED before
  BY DEF PageInv, ListEntries, Prefer, site, CallInv, Route, Consented
<1>2. CASE Goto(c, "refused")
  BY <1>1, <1>2, RefusalKeeps
<1>3. ASSUME NEW label \in {"sent", "prefer", "whom"}, Goto(c, label)
      PROVE  PageInv'
  <2>1. /\ Turn(c) /\ at'[c] = label /\ Unasked(c)'
        /\ at' \in [Call -> Labels] /\ memo' \in [Call -> Memo]
        /\ req' \in [Call -> Request \cup {None}]
    BY <1>1, <1>3, WalkOn DEF Labels, Over
  <2>2. req'[c] = req[c] /\ req[c] \in Request /\ Kind(c)' = Kind(c) /\ LetThrough(c)'
    BY <1>1, <2>1, SelfKept
  <2>3. Route(c)' /\ Consented(c)' /\ Holds(c)'
    BY <1>1, <1>3, <2>1, <2>2 DEF Route, Consented, Holds
  <2> QED BY <1>1, <2>1, <2>3, SiteStays DEF CallInv
<1> QED BY <1>2, <1>3 DEF ListEntries, Prefer

LEMMA ChosenKeeps ==
  ASSUME PageInv, NEW c \in Call, Chosen(c)
  PROVE  PageInv'
<1>1. PageTypeOK /\ SiteInv /\ CallInv(c) /\ at[c] = "whom" /\ memo[c] \in Memo
      /\ UNCHANGED <<pin, entries, issued, req>> /\ UNCHANGED before
      /\ Kind(c) \in {"login", "proxy", "profile"}
  BY DEF PageInv, PageTypeOK, Chosen, CallInv, Route
<1>2. CASE Goto(c, "refused") /\ UNCHANGED <<trusted, holder, memo>>
  BY <1>1, <1>2, RefusalKeeps DEF site
<1>3. CASE /\ Remember(c, "yes", memo[c].yes \cup {"whom"})
           /\ trusted' \in {trusted, trusted \/ Kind(c) = "login"}
           /\ \/ Goto(c, "bind") /\ UNCHANGED holder
              \/ Kind(c) = "login" /\ Goto(c, "sent") /\ holder' = TRUE
  <2>1. memo' \in [Call -> Memo] /\ memo'[c] = [memo[c] EXCEPT !.yes = @ \cup {"whom"}]
    BY <1>3, Remembering
  <2>2. \A d \in Call \ {c} : memo'[d] = memo[d]
    BY <1>3, Remembering
  <2>3. /\ memo'[c].found = memo[c].found /\ memo'[c].silent = memo[c].silent
        /\ memo'[c].yes = memo[c].yes \cup {"whom"} /\ memo'[c].seen = memo[c].seen
    BY <1>1, <2>1 DEF Memo
  <2>4. PICK label \in {"bind", "sent"} :
          /\ Goto(c, label)
          /\ holder' = holder \/ (Kind(c) = "login" /\ holder' = TRUE)
          /\ label = "bind" => holder' = holder
    BY <1>3
  <2>5. /\ Turn(c) /\ at' \in [Call -> Labels] /\ at'[c] = label
        /\ req' \in [Call -> Request \cup {None}]
    BY <1>1, <2>1, <2>2, <2>3, <2>4, TurnsOf DEF Labels, Over
  <2>6. Unasked(c)'
    BY <1>1, <2>3, <2>4, <2>5, SilenceKept
  <2>7. Approved(c)' /\ LetThrough(c)' /\ "whom" \in memo'[c].yes
    BY <2>3 DEF Approved, LetThrough
  <2>8. req'[c] = req[c] /\ req[c] \in Request /\ Kind(c)' = Kind(c)
    BY <1>1, <2>5, SelfKept
  <2>9. Route(c)' /\ Consented(c)' /\ Holds(c)'
    BY <1>1, <2>5, <2>7, <2>8 DEF Route, Consented, Holds
  <2>10. IdentityWasChosen'
    <3>1. CASE holder' = holder
      BY <1>1, <2>5, <3>1, SiteKept DEF Turn
    <3>2. CASE Kind(c) = "login" /\ holder' = TRUE
      <4>1. \E d \in Call : "whom" \in memo'[d].yes /\ Kind(d)' = "login"
        BY <2>7, <2>8, <3>2
      <4>2. ASSUME NEW n \in DOMAIN entries, entries[n] # None
            PROVE  "whom" \in memo'[entries[n]].yes
        <5>1. entries[n] \in Call
          BY <1>1, <4>2, ElementOfSeq DEF PageTypeOK
        <5> QED BY <1>1, <2>5, <4>2, <5>1 DEF SiteInv, IdentityWasChosen, Turn, Grows
      <4> QED BY <1>1, <4>1, <4>2 DEF IdentityWasChosen
    <3> QED BY <2>4, <3>1, <3>2
  <2>11. SiteInv'
    <3>1. Ticked'
      BY <2>7 DEF Ticked
    <3> QED BY <1>1, <2>5, <2>10, <3>1, SiteKept DEF SiteInv, Turn
  <2>12. trusted' \in BOOLEAN
    BY <1>1, <1>3 DEF PageTypeOK
  <2>13. holder' \in BOOLEAN
    BY <1>1, <2>4 DEF PageTypeOK
  <2>14. PageTypeOK'
    BY <1>1, <2>1, <2>5, <2>12, <2>13 DEF PageTypeOK
  <2> QED BY <2>5, <2>6, <2>9, <2>11, <2>14, TurnKeeps DEF CallInv
<1> QED BY <1>2, <1>3 DEF Chosen

LEMMA BindKeeps ==
  ASSUME PageInv, NEW c \in Call, Bind(c)
  PROVE  PageInv'
<1>1. PageTypeOK /\ SiteInv /\ CallInv(c) /\ at[c] = "bind" /\ memo[c] \in Memo
      /\ UNCHANGED <<pin, trusted, holder, issued, req, memo>> /\ UNCHANGED before
      /\ Kind(c) \in {"login", "proxy", "profile"} /\ req[c] \in Request
      /\ LetThrough(c) /\ "whom" \in memo[c].yes
  BY DEF PageInv, PageTypeOK, Bind, CallInv, Route, Consented
<1>2. CASE Goto(c, "refused") /\ UNCHANGED entries
  BY <1>1, <1>2, RefusalKeeps DEF site
<1>3. CASE ~(Goto(c, "refused") /\ UNCHANGED entries)
  <2>1. PICK label \in {"forget", "pin", "tick"} :
          /\ Goto(c, label) /\ entries' = Append(entries, c)
          /\ label = "forget" => Kind(c) = "login"
          /\ label = "pin" => Kind(c) = "proxy" /\ req[c].rp # None
          /\ label = "tick" => Kind(c) # "login"
    <3>1. CASE Kind(c) = "login"
      BY <1>3, <3>1 DEF Bind
    <3>2. CASE Kind(c) = "proxy" /\ req[c].rp # None
      BY <1>3, <3>2 DEF Bind
    <3>3. CASE Kind(c) # "login" /\ ~(Kind(c) = "proxy" /\ req[c].rp # None)
      BY <1>3, <3>3 DEF Bind
    <3> QED BY <3>1, <3>2, <3>3
  <2>2. /\ Turn(c) /\ at'[c] = label /\ Unasked(c)'
        /\ at' \in [Call -> Labels] /\ memo' \in [Call -> Memo]
        /\ req' \in [Call -> Request \cup {None}]
    BY <1>1, <2>1, WalkOn DEF Labels, Over
  <2>3. req'[c] = req[c] /\ Kind(c)' = Kind(c) /\ LetThrough(c)'
    BY <1>1, <2>2, SelfKept
  <2>4. Kind(c) = "proxy" /\ req[c].rp # None => req[c].rp \in Rp
    BY <1>1 DEF Kind, Request
  <2>5. Route(c)' /\ Consented(c)' /\ Holds(c)'
    BY <1>1, <2>1, <2>2, <2>3, <2>4 DEF Route, Consented, Holds
  <2>6. /\ entries' \in Seq(Call \cup {None})
        /\ \A n \in DOMAIN entries' : (n \in DOMAIN entries /\ entries'[n] = entries[n]) \/ entries'[n] = c
    BY <1>1, <2>1, AppendProperties DEF PageTypeOK
  <2>7. IdentityWasChosen'
    <3>1. ASSUME NEW n \in DOMAIN entries', entries'[n] # None
          PROVE  "whom" \in memo'[entries'[n]].yes
      BY <1>1, <2>6, <3>1 DEF SiteInv, IdentityWasChosen
    <3>2. holder => before.holder \/ \E d \in Call : "whom" \in memo[d].yes /\ Kind(d) = "login"
      BY <1>1 DEF SiteInv, IdentityWasChosen
    <3>3. holder' => before'.holder \/ \E d \in Call : "whom" \in memo'[d].yes /\ Kind(d)' = "login"
      BY <1>1, <3>2 DEF Kind
    <3> QED BY <3>1, <3>3 DEF IdentityWasChosen
  <2>8. SiteInv'
    BY <1>1, <2>2, <2>7, SiteKept DEF SiteInv, Turn
  <2>9. PageTypeOK'
    BY <1>1, <2>2, <2>6 DEF PageTypeOK
  <2> QED BY <2>2, <2>5, <2>8, <2>9, TurnKeeps DEF CallInv
<1> QED BY <1>2, <1>3

LEMMA ForgetKeeps ==
  ASSUME PageInv, NEW c \in Call, Forget(c)
  PROVE  PageInv'
<1>1. PageTypeOK /\ SiteInv /\ CallInv(c) /\ at[c] = "forget" /\ Goto(c, "sent") /\ holder' = FALSE
      /\ UNCHANGED <<pin, trusted, entries, issued, req, memo>> /\ UNCHANGED before
      /\ Kind(c) = "login" /\ LetThrough(c)
  BY DEF PageInv, Forget, CallInv, Route, Consented
<1>2. /\ Turn(c) /\ at'[c] = "sent" /\ Unasked(c)'
      /\ at' \in [Call -> Labels] /\ memo' \in [Call -> Memo]
      /\ req' \in [Call -> Request \cup {None}]
  BY <1>1, WalkOn DEF Labels, Over
<1>3. req'[c] = req[c] /\ req[c] \in Request /\ Kind(c)' = Kind(c) /\ LetThrough(c)'
  BY <1>1, <1>2, SelfKept
<1>4. Route(c)' /\ Consented(c)' /\ Holds(c)'
  BY <1>1, <1>2, <1>3 DEF Route, Consented, Holds
<1>5. IdentityWasChosen'
  BY <1>1 DEF SiteInv, IdentityWasChosen
<1>6. SiteInv'
  BY <1>1, <1>2, <1>5, SiteKept DEF SiteInv, Turn
<1>7. PageTypeOK'
  BY <1>1, <1>2 DEF PageTypeOK
<1> QED BY <1>2, <1>4, <1>6, <1>7, TurnKeeps DEF CallInv

LEMMA TickKeeps ==
  ASSUME PageInv, NEW c \in Call, Tick(c)
  PROVE  PageInv'
<1>1. PageTypeOK /\ SiteInv /\ CallInv(c) /\ at[c] = "tick" /\ trusted' \in {trusted, TRUE}
      /\ UNCHANGED <<pin, holder, entries, issued, req, memo>> /\ UNCHANGED before
      /\ LetThrough(c) /\ "whom" \in memo[c].yes
  BY DEF PageInv, Tick, CallInv, Consented
<1>2. PICK label \in {"done", "sent"} : Goto(c, label)
  BY DEF Tick
<1>3. /\ Turn(c) /\ at'[c] = label /\ Unasked(c)'
      /\ at' \in [Call -> Labels] /\ memo' \in [Call -> Memo]
      /\ req' \in [Call -> Request \cup {None}]
  BY <1>1, <1>2, WalkOn DEF Labels, Over
<1>4. req'[c] = req[c] /\ req[c] \in Request /\ Kind(c)' = Kind(c) /\ LetThrough(c)'
  BY <1>1, <1>3, SelfKept
<1>5. Kind(c) \in {"proxy", "profile"}
  BY <1>1 DEF CallInv, Route
<1>6. Route(c)' /\ Consented(c)' /\ Holds(c)'
  BY <1>1, <1>2, <1>3, <1>4, <1>5 DEF Route, Consented, Holds
<1>7. Ticked'
  BY <1>1 DEF Ticked, Approved
<1>8. SiteInv'
  BY <1>1, <1>3, <1>7, SiteKept DEF SiteInv, Turn
<1>9. trusted' \in BOOLEAN
  BY <1>1 DEF PageTypeOK
<1>10. PageTypeOK'
  BY <1>1, <1>3, <1>9 DEF PageTypeOK
<1> QED BY <1>3, <1>6, <1>8, <1>10, TurnKeeps DEF CallInv

LEMMA IssueKeeps ==
  ASSUME PageInv, NEW c \in Call, Issue(c)
  PROVE  PageInv'
<1>1. PageTypeOK /\ SiteInv /\ CallInv(c) /\ at[c] = "issue" /\ Kind(c) = "attest"
      /\ UNCHANGED <<pin, trusted, holder, entries, req, memo>> /\ UNCHANGED before
      /\ req[c] \in Request /\ "whether" \in memo[c].yes
  BY DEF PageInv, Issue, CallInv, Route, Consented
<1>2. CASE Goto(c, "refused") /\ UNCHANGED issued
  BY <1>1, <1>2, RefusalKeeps DEF site
<1>3. CASE Goto(c, "done") /\ issued' = issued \cup {[by |-> c, rp |-> req[c].rp]}
  <2>1. /\ Turn(c) /\ CallInv(c)'
        /\ at' \in [Call -> Labels] /\ memo' \in [Call -> Memo]
        /\ req' \in [Call -> Request \cup {None}]
        /\ before' \in Before
    BY <1>1, <1>3, EndHere
  <2> DEFINE s == [by |-> c, rp |-> req[c].rp]
  <2>2. req[c].rp \in Rp
    BY <1>1 DEF Kind, Request
  <2>3. s \in Statements
    BY <2>2 DEF Statements
  <2>4. Kind(c)' = "attest" /\ "whether" \in memo'[c].yes /\ req'[c].rp = req[c].rp
    BY <1>1 DEF Kind
  <2>5. ASSUME NEW a \in issued' PROVE Shown(a)'
    <3>1. CASE a = s
      BY <2>4, <3>1 DEF Shown
    <3>2. CASE a \in issued
      BY <1>1, <2>1, <3>2, Lasting DEF SiteInv, PageTypeOK, Turn
    <3> QED BY <1>3, <2>5, <3>1, <3>2
  <2>6. SiteInv'
    BY <1>1, <2>1, <2>5, SiteKept DEF SiteInv, Turn
  <2>7. PageTypeOK'
    BY <1>1, <1>3, <2>1, <2>3 DEF PageTypeOK
  <2> QED BY <2>1, <2>6, <2>7, TurnKeeps
<1> QED BY <1>2, <1>3 DEF Issue

LEMMA FetchKeeps ==
  ASSUME PageInv, NEW c \in Call, Fetch(c)
  PROVE  PageInv'
<1>1. PageTypeOK /\ SiteInv /\ CallInv(c) /\ at[c] = "fetch" /\ Kind(c) = "response"
      /\ UNCHANGED <<site, req>> /\ UNCHANGED before /\ memo[c] \in Memo
  BY DEF PageInv, PageTypeOK, Fetch, CallInv, Route, site
<1>2. CASE Goto(c, "refused") /\ UNCHANGED memo
  BY <1>1, <1>2, RefusalKeeps
<1>3. CASE \E a \in issued : Remember(c, "of", a) /\ Goto(c, "spend")
  <2>1. PICK a \in issued : Remember(c, "of", a) /\ Goto(c, "spend")
    BY <1>3
  <2>2. a \in Statements /\ Shown(a)
    BY <1>1 DEF PageTypeOK, SiteInv
  <2>3. memo' \in [Call -> Memo] /\ memo'[c] = [memo[c] EXCEPT !.of = a]
    BY <2>1, <2>2, Remembering
  <2>4. \A d \in Call \ {c} : memo'[d] = memo[d]
    BY <2>1, Remembering
  <2>5. /\ memo'[c].found = memo[c].found /\ memo'[c].silent = memo[c].silent
        /\ memo'[c].yes = memo[c].yes /\ memo'[c].seen = memo[c].seen /\ memo'[c].of = a
    BY <1>1, <2>3 DEF Memo
  <2>6. /\ Turn(c) /\ at' \in [Call -> Labels] /\ at'[c] = "spend"
        /\ req' \in [Call -> Request \cup {None}]
    BY <1>1, <2>1, <2>3, <2>4, <2>5, TurnsOf DEF Labels, Over
  <2>7. Unasked(c)'
    BY <1>1, <2>5, <2>6, SilenceKept
  <2>8. req'[c] = req[c] /\ req[c] \in Request /\ Kind(c)' = Kind(c)
    BY <1>1, <2>6, SelfKept
  <2>9. Route(c)' /\ Consented(c)'
    BY <1>1, <2>6, <2>8 DEF Route, Consented
  <2>10. Shown(a)'
    BY <2>2, <2>6, Lasting DEF Turn
  <2>11. Holds(c)'
    BY <2>2, <2>5, <2>6, <2>10 DEF Holds, Shown
  <2> QED BY <1>1, <2>3, <2>6, <2>7, <2>9, <2>11, SiteStays DEF CallInv
<1> QED BY <1>2, <1>3 DEF Fetch

LEMMA SpendKeeps ==
  ASSUME PageInv, NEW c \in Call, Spend(c)
  PROVE  PageInv'
<1>1. PageTypeOK /\ SiteInv /\ CallInv(c) /\ at[c] = "spend" /\ Kind(c) = "response"
      /\ UNCHANGED <<pin, trusted, holder, entries, req, memo>> /\ UNCHANGED before
      /\ memo[c].of \in Statements /\ Shown(memo[c].of)
  BY DEF PageInv, Spend, CallInv, Route, Holds
<1>2. CASE ~PinnedTo(memo[c].of.rp)
  BY <1>1, <1>2, RefusalKeeps DEF site, Spend
<1>3. CASE PinnedTo(memo[c].of.rp)
  <2>1. Goto(c, "sent") /\ issued' = issued \ {memo[c].of}
    BY <1>3 DEF Spend
  <2>2. /\ Turn(c) /\ at'[c] = "sent" /\ Unasked(c)'
        /\ at' \in [Call -> Labels] /\ memo' \in [Call -> Memo]
        /\ req' \in [Call -> Request \cup {None}]
        /\ before' \in Before
    BY <1>1, <2>1, WalkOn DEF Labels, Over
  <2>3. req'[c] = req[c] /\ req[c] \in Request /\ Kind(c)' = Kind(c)
    BY <1>1, <2>2, SelfKept
  <2>4. Route(c)' /\ Consented(c)'
    BY <1>1, <2>2, <2>3 DEF Route, Consented
  <2>5. Shown(memo[c].of)'
    BY <1>1 DEF Shown, Kind
  <2>6. Holds(c)'
    BY <1>1, <2>2, <2>3, <2>5 DEF Holds
  <2>7. issued' \subseteq issued
    BY <2>1
  <2>8. SiteInv' /\ PageTypeOK'
    BY <1>1, <2>2, <2>7, SiteKept DEF SiteInv, PageTypeOK, Turn
  <2> QED BY <2>2, <2>4, <2>6, <2>8, TurnKeeps DEF CallInv
<1> QED BY <1>2, <1>3

LEMMA UntrustKeeps ==
  ASSUME PageInv, Untrust
  PROVE  PageInv'
<1>1. UNCHANGED <<pin, holder, entries, issued, req, at, memo>> /\ UNCHANGED before /\ trusted' = FALSE
  BY DEF Untrust
<1>2. Grows
  BY <1>1 DEF Grows
<1>3. PageTypeOK'
  BY <1>1 DEF PageInv, PageTypeOK
<1>4. SiteInv'
  BY <1>1, <1>2, SiteKept DEF SiteInv
<1>5. \A d \in Call : CallInv(d)'
  BY <1>1, <1>2, OthersKeep
<1> QED BY <1>3, <1>4, <1>5 DEF PageInv

LEMMA EvictKeeps ==
  ASSUME PageInv, Evict
  PROVE  PageInv'
<1>1. UNCHANGED <<pin, trusted, holder, entries, issued, req, memo>> /\ UNCHANGED before
      /\ at \in [Call -> Labels]
  BY DEF Evict, site, PageInv, PageTypeOK
<1>2. \A d \in Call : at'[d] = at[d] \/ (at'[d] = "dead" /\ at[d] # "unmade")
  BY <1>1 DEF Evict, Over
<1>3. at' \in [Call -> Labels]
  BY <1>1 DEF Evict, Labels, Over
<1>4. Grows
  BY <1>1, <1>2 DEF Grows
<1>5. PageTypeOK'
  BY <1>1, <1>3 DEF PageInv, PageTypeOK
<1>6. SiteInv'
  BY <1>1, <1>4, SiteKept DEF SiteInv
<1>7. \A d \in Call : CallInv(d)'
  BY <1>1, <1>2, <1>4, OthersKeep
<1> QED BY <1>5, <1>6, <1>7 DEF PageInv

LEMMA NothingKeeps ==
  ASSUME PageInv, UNCHANGED vars
  PROVE  PageInv'
<1>1. UNCHANGED <<pin, trusted, holder, entries, issued, req, at, memo>> /\ UNCHANGED before
  BY DEF vars, site
<1>2. Grows
  BY <1>1 DEF Grows
<1>3. PageTypeOK'
  BY <1>1 DEF PageInv, PageTypeOK
<1>4. SiteInv'
  BY <1>1, <1>2, SiteKept DEF SiteInv
<1>5. \A d \in Call : CallInv(d)'
  BY <1>1, <1>2, OthersKeep
<1> QED BY <1>3, <1>4, <1>5 DEF PageInv

-----------------------------------------------------------------------------
(* The theorems.                                                           *)

LEMMA PageInit == Init => PageInv
<1> SUFFICES ASSUME Init PROVE PageInv
  OBVIOUS
<1>1. trusted \in BOOLEAN /\ holder \in BOOLEAN /\ entries \in {<<>>, <<None>>}
  BY DEF Init
<1>2. /\ pin \in Pins \cup {None} /\ issued \subseteq Statements
      /\ before = [pin |-> pin, trusted |-> trusted, holder |-> holder]
  BY DEF Init, Pins, Statements
<1>3. /\ req \in [Call -> Request \cup {None}] /\ at \in [Call -> Labels]
      /\ \A c \in Call : at[c] = "unmade" /\ memo[c] = Blank
  BY DEF Init, Labels, Over
<1>4. memo \in [Call -> Memo]
  BY DEF Init, Blank, Memo
<1>5. entries \in Seq(Call \cup {None}) /\ \A n \in DOMAIN entries : entries[n] = None
  <2>1. CASE entries = <<>>
    BY <2>1, EmptySeq
  <2>2. CASE entries = <<None>>
    <3>1. entries \in [1..1 -> Call \cup {None}] /\ Len(entries) = 1
      BY <2>2
    <3>2. entries \in Seq(Call \cup {None})
      BY <3>1, SeqDef
    <3>3. DOMAIN entries = {1} /\ entries[1] = None
      BY <2>2
    <3> QED BY <3>2, <3>3
  <2> QED BY <1>1, <2>1, <2>2
<1>6. PageTypeOK
  BY <1>1, <1>2, <1>3, <1>4, <1>5 DEF PageTypeOK, Before
<1>7. \A c \in Call : CallInv(c)
  <2> TAKE c \in Call
  <2>1. at[c] = "unmade" /\ memo[c] = Blank
    BY <1>3
  <2>2. ~memo[c].silent
    BY <2>1 DEF Blank
  <2>3. Route(c) /\ Consented(c)
    BY <2>1 DEF Route, Consented
  <2>4. Unasked(c)
    BY <2>2 DEF Unasked
  <2>5. Holds(c)
    BY <2>1 DEF Holds
  <2> QED BY <2>3, <2>4, <2>5 DEF CallInv
<1>8. BaseBelongsToRp
  BY <1>2 DEF BaseBelongsToRp, NamedTogether, Pins
<1>9. IdentityWasChosen
  BY <1>1, <1>2, <1>5 DEF IdentityWasChosen
<1>10. (trusted => Ticked) /\ \A a \in issued : Shown(a)
  BY <1>2 DEF Ticked, Shown, Init
<1> QED BY <1>6, <1>7, <1>8, <1>9, <1>10 DEF PageInv, SiteInv

LEMMA PageStep == PageInv /\ [Next]_vars => PageInv'
<1> SUFFICES ASSUME PageInv, [Next]_vars PROVE PageInv'
  OBVIOUS
<1>1. ASSUME NEW c \in Call, Work(c) PROVE PageInv'
  BY <1>1, ResolveKeeps, CheckKeeps, VerifiedKeeps, GateKeeps, SettledKeeps, PinOriginKeeps,
     StoreKeeps, LookupsKeep, ChosenKeeps, BindKeeps, ForgetKeeps, TickKeeps, IssueKeeps,
     FetchKeeps, SpendKeeps DEF Work
<1>2. ASSUME NEW c \in Call, NEW r \in Request, Arrive(c, r) PROVE PageInv'
  BY <1>2, ArriveKeeps
<1>3. CASE Untrust
  BY <1>3, UntrustKeeps
<1>4. CASE Evict
  BY <1>4, EvictKeeps
<1>5. CASE UNCHANGED vars
  BY <1>5, NothingKeeps
<1> QED BY <1>1, <1>2, <1>3, <1>4, <1>5 DEF Next

\* The invariant holds throughout, for any number of calls.
THEOREM PageAlways == Spec => []PageInv
<1>1. PageInv /\ [Next]_vars => PageInv'
  BY PageStep
<1> QED BY PageInit, <1>1, PTL DEF Spec

\* The types of the pin, the trust, the identities, the statements and the calls.
THEOREM PageTyped == Spec => []PageTypeOK
<1>1. PageInv => PageTypeOK
  BY DEF PageInv
<1> QED BY <1>1, PageAlways, PTL

\* pinOrigin: the base read and written back across an await stays that of the relying
\* party it was named with.
THEOREM BasesBelong == Spec => []BaseBelongsToRp
<1>1. PageInv => BaseBelongsToRp
  BY DEF PageInv, SiteInv
<1> QED BY <1>1, PageAlways, PTL

\* pageStepUpBindingRefusal and its second reading: where a step-up goes, the user logged in.
THEOREM StepUpsStayHome == Spec => []StepUpWhereLoggedIn
<1>1. PageInv => StepUpWhereLoggedIn
  BY DEF PageInv, CallInv, Holds, StepUpWhereLoggedIn
<1> QED BY <1>1, PageAlways, PTL

\* gatedConsent: silence rests on a tick, and no signature or session key is silent.
THEOREM SilenceIsEarned == Spec => []SilenceWasTicked
<1>1. ASSUME PageInv, NEW c \in Call, at[c] = "sent"
      PROVE  \/ Approved(c)
             \/ Kind(c) = "response"
             \/ /\ ~req[c].key /\ Kind(c) # "sign"
                /\ Ticked
  BY <1>1 DEF PageInv, CallInv, Consented, LetThrough, Unasked
<1>2. PageInv => SilenceWasTicked
  BY <1>1 DEF SilenceWasTicked, Ticked
<1> QED BY <1>2, PageAlways, PTL

\* decideSiteIdentity and bindProfile: the human picked every identity.
THEOREM IdentitiesChosen == Spec => []IdentityWasChosen
<1>1. PageInv => IdentityWasChosen
  BY DEF PageInv, SiteInv
<1> QED BY <1>1, PageAlways, PTL

\* approverResponseRefusal: a response carries only what the human approved.
THEOREM ResponsesShown == Spec => []ResponseWasShown
<1>1. PageInv => ResponseWasShown
  BY DEF PageInv, CallInv, Holds, ResponseWasShown, Shown
<1> QED BY <1>1, PageAlways, PTL

\* checkOriginPin: the pin changes hands only past a warning, or moved since it was read.
THEOREM ChangesAreLoud == Spec => ChangeIsLoud
<1> DEFINE Loud ==
      \A c \in Call :
        /\ pin # None /\ pin' # None /\ pin'.rp # pin.rp
        /\ at[c] \in {"pin", "store"} /\ at'[c] # at[c]
        => (Changed(c) /\ Approved(c)) \/ memo[c].seen # pin
<1>1. ASSUME PageInv, Next, NEW c \in Call, pin # None, pin' # None, pin'.rp # pin.rp,
             at[c] \in {"pin", "store"}, at'[c] # at[c], memo[c].seen = pin
      PROVE  Changed(c) /\ Approved(c)
  <2>1. PICK d \in Call : PinOrigin(d) \/ Store(d)
    BY <1>1 DEF Next, Work, Arrive, Resolve, Check, Verified, Gate, Settled, ListEntries, Prefer,
         Chosen, Bind, Forget, Tick, Issue, Fetch, Spend, Untrust, Evict, site
  <2>2. PICK base : Pinned(d, base)
    BY <1>1, <2>1 DEF PinOrigin, Store, site
  <2>3. PICK label : Goto(d, label)
    BY <2>2 DEF Pinned
  <2>4. c = d
    BY <1>1, <2>3 DEF Goto, PageInv, PageTypeOK
  <2>5. pin'.rp = req[c].rp
    BY <2>2, <2>4 DEF Pinned
  <2>6. Changed(c)
    BY <1>1, <2>5 DEF Changed
  <2>7. LetThrough(c) /\ Kind(c) \in {"login", "proxy"}
    BY <1>1 DEF PageInv, CallInv, Route, Consented
  <2>8. ~memo[c].silent
    BY <1>1, <2>6, <2>7 DEF PageInv, CallInv, Unasked
  <2> QED BY <2>6, <2>7, <2>8 DEF LetThrough
<1>2. PageInv /\ [Next]_vars => [Loud]_vars
  BY <1>1
<1>3. Spec => [][Loud]_vars
  BY <1>2, PageAlways, PTL DEF Spec
<1> QED BY <1>3 DEF ChangeIsLoud

-----------------------------------------------------------------------------
(***************************************************************************)
(* The consent popups, for any number of them: a decision in time wins, an *)
(* unanswered prompt on screen is not denied, and the windows implement    *)
(* ConsentPromise.                                                         *)
(***************************************************************************)

\* A window that is asked for has had no verdict; what was clicked is on its way,
\* delivered or missed; a grace runs only for a window that is gone.
WindowInv ==
  \A c \in Consent :
    /\ window[c] = "requested" => verdict[c] \in {"waiting", "lost"}
    /\ verdict[c] = "unasked" => window[c] = "none"
    /\ clicked[c] # Undecided => window[c] \in {"open", "gone"}
    /\ c \in pending /\ clicked[c] # Undecided => c \in mail \cup missed
    /\ c \in grace => window[c] = "gone"
    /\ verdict[c] = "approve" => clicked[c] = "approve"

PromptInv == WindowTypeOK /\ WindowInv /\ DecisionWins /\ OpenPromptNotDenied

\* Settling decides a waiting consent and no other.
LEMMA SettleOnce ==
  ASSUME WindowTypeOK, NEW c \in Consent, NEW d \in Decision, Settle(c, d)
  PROVE  /\ verdict' \in [Consent -> {"unasked", "waiting", "approve", "deny", "lost"}]
         /\ \A b \in Consent : verdict'[b] = IF b = c /\ b \in pending THEN d ELSE verdict[b]
         /\ pending' = {b \in Consent : verdict'[b] = "waiting"}
BY DEF WindowTypeOK, Settle, Decision

LEMMA PromptInit == WindowInit => PromptInv
BY DEF WindowInit, PromptInv, WindowTypeOK, WindowInv, DecisionWins, OpenPromptNotDenied, Decision

LEMMA AskInv ==
  ASSUME PromptInv, ConsentAssumption, NEW c \in Consent, Ask(c)
  PROVE  PromptInv'
<1>1. WindowTypeOK'
  BY DEF PromptInv, WindowTypeOK, WindowInv, Ask
<1>2. WindowInv'
  BY DEF PromptInv, WindowTypeOK, WindowInv, Ask
<1>3. DecisionWins' /\ OpenPromptNotDenied'
  BY DEF PromptInv, WindowTypeOK, WindowInv, DecisionWins, OpenPromptNotDenied, Ask, Decision
<1> QED BY <1>1, <1>2, <1>3 DEF PromptInv

LEMMA CreatedInv ==
  ASSUME PromptInv, NEW c \in Consent, Created(c) \/ CreateFails(c)
  PROVE  PromptInv'
<1>1. CASE Created(c)
  BY <1>1 DEF PromptInv, WindowTypeOK, WindowInv, DecisionWins, OpenPromptNotDenied, Created, popup
<1>2. CASE CreateFails(c)
  <2>0. "deny" \in Decision /\ Settle(c, "deny")
    BY <1>2 DEF CreateFails, Decision
  <2>1. WindowTypeOK'
    BY <1>2, <2>0, SettleOnce DEF PromptInv, WindowTypeOK, WindowInv, CreateFails
  <2>2. WindowInv'
    BY <1>2, <2>0, SettleOnce DEF PromptInv, WindowTypeOK, WindowInv, CreateFails
  <2>3. DecisionWins' /\ OpenPromptNotDenied'
    BY <1>2, <2>0, SettleOnce
    DEF PromptInv, WindowTypeOK, WindowInv, DecisionWins, OpenPromptNotDenied, CreateFails
  <2> QED BY <2>1, <2>2, <2>3 DEF PromptInv
<1> QED BY <1>1, <1>2

LEMMA ResultInv ==
  ASSUME PromptInv, NEW c \in Consent, Result(c)
  PROVE  PromptInv'
<1>0. clicked[c] \in Decision /\ Settle(c, clicked[c])
  BY DEF Result, PromptInv, WindowTypeOK
<1>1. WindowTypeOK'
  BY <1>0, SettleOnce DEF PromptInv, WindowTypeOK, Result
<1>2. WindowInv'
  BY <1>0, SettleOnce DEF PromptInv, WindowTypeOK, WindowInv, Result, Decision
<1>3. DecisionWins' /\ OpenPromptNotDenied'
  BY <1>0, SettleOnce DEF PromptInv, WindowTypeOK, WindowInv, DecisionWins, OpenPromptNotDenied, Result
<1> QED BY <1>1, <1>2, <1>3 DEF PromptInv

LEMMA GraceInv ==
  ASSUME PromptInv, NEW c \in Consent, GraceEnds(c)
  PROVE  PromptInv'
<1>0. "deny" \in Decision /\ Settle(c, "deny")
  BY DEF GraceEnds, Decision
<1>1. WindowTypeOK'
  BY <1>0, SettleOnce DEF PromptInv, WindowTypeOK, GraceEnds
<1>2. WindowInv'
  BY <1>0, SettleOnce DEF PromptInv, WindowTypeOK, WindowInv, GraceEnds
<1>3. DecisionWins' /\ OpenPromptNotDenied'
  BY <1>0, SettleOnce
  DEF PromptInv, WindowTypeOK, WindowInv, DecisionWins, OpenPromptNotDenied, GraceEnds
<1> QED BY <1>1, <1>2, <1>3 DEF PromptInv

LEMMA RemovedInv ==
  ASSUME PromptInv, NEW c \in Consent, Removed(c)
  PROVE  PromptInv'
BY DEF PromptInv, WindowTypeOK, WindowInv, DecisionWins, OpenPromptNotDenied, Removed

LEMMA WorkerDiesInv ==
  ASSUME PromptInv, WorkerDies
  PROVE  PromptInv'
<1>1. WindowTypeOK'
  BY DEF PromptInv, WindowTypeOK, WorkerDies, popup
<1>2. WindowInv'
  BY DEF PromptInv, WindowTypeOK, WindowInv, WorkerDies, popup
<1>3. DecisionWins' /\ OpenPromptNotDenied'
  BY DEF PromptInv, WindowTypeOK, DecisionWins, OpenPromptNotDenied, WorkerDies, popup, Decision
<1> QED BY <1>1, <1>2, <1>3 DEF PromptInv

LEMMA OpensInv ==
  ASSUME PromptInv, ConsentAssumption, NEW c \in Consent, Opens(c)
  PROVE  PromptInv'
<1>1. WindowTypeOK' /\ WindowInv'
  BY DEF PromptInv, WindowTypeOK, WindowInv, Opens, worker
<1>2. DecisionWins' /\ OpenPromptNotDenied'
  BY DEF PromptInv, WindowTypeOK, WindowInv, DecisionWins, OpenPromptNotDenied, Opens, worker
<1> QED BY <1>1, <1>2 DEF PromptInv

LEMMA ClickInv ==
  ASSUME PromptInv, ConsentAssumption, NEW c \in Consent, NEW d \in Decision, Click(c, d)
  PROVE  PromptInv'
<1>1. WindowTypeOK' /\ WindowInv'
  BY DEF PromptInv, WindowTypeOK, WindowInv, Click, worker, ConsentAssumption, Decision
<1>2. DecisionWins' /\ OpenPromptNotDenied'
  BY DEF PromptInv, WindowTypeOK, WindowInv, DecisionWins, OpenPromptNotDenied, Click, worker,
         ConsentAssumption, Decision
<1> QED BY <1>1, <1>2 DEF PromptInv

LEMMA GoneInv ==
  ASSUME PromptInv, NEW c \in Consent, CloseAcked(c) \/ SendFails(c) \/ Dismiss(c)
  PROVE  PromptInv'
<1>1. WindowTypeOK'
  BY DEF PromptInv, WindowTypeOK, CloseAcked, SendFails, Dismiss, Gone, worker
<1>2. WindowInv'
  BY DEF PromptInv, WindowTypeOK, WindowInv, CloseAcked, SendFails, Dismiss, Gone, worker
<1>3. DecisionWins' /\ OpenPromptNotDenied'
  BY DEF PromptInv, WindowTypeOK, DecisionWins, OpenPromptNotDenied, CloseAcked, SendFails, Dismiss,
         Gone, worker
<1> QED BY <1>1, <1>2, <1>3 DEF PromptInv

LEMMA PromptStep ==
  ASSUME ConsentAssumption, PromptInv, [WindowNext]_windowVars
  PROVE  PromptInv'
<1>1. CASE UNCHANGED windowVars
  BY <1>1 DEF PromptInv, WindowTypeOK, WindowInv, DecisionWins, OpenPromptNotDenied, windowVars, worker, popup
<1>2. CASE WorkerDies
  BY <1>2, WorkerDiesInv
<1>3. CASE \E c \in Consent, d \in Decision : Click(c, d)
  BY <1>3, ClickInv
<1>4. CASE \E c \in Consent : Ask(c) \/ Handle(c) \/ SendFails(c) \/ Dismiss(c)
  BY <1>4, AskInv, OpensInv, CreatedInv, ResultInv, RemovedInv, GraceInv, GoneInv DEF Handle
<1> QED BY <1>1, <1>2, <1>3, <1>4 DEF WindowNext

LEMMA PromptInvariant == WindowSpec => []PromptInv
<1>1. ConsentAssumption
  BY ConsentAssumption
<1> QED BY <1>1, PromptInit, PromptStep, PTL DEF WindowSpec

\* Types hold, and pendingConsents holds exactly the consents somebody waits for.
THEOREM WindowTyped == WindowSpec => []WindowTypeOK
BY PromptInvariant, PTL DEF PromptInv

\* A decision that reaches the worker within the grace is the verdict.
THEOREM TimelyDecisionWins == WindowSpec => []DecisionWins
BY PromptInvariant, PTL DEF PromptInv

\* No prompt is denied under the eyes of a human who has not answered it.
THEOREM OpenPromptsAreSafe == WindowSpec => []OpenPromptNotDenied
BY PromptInvariant, PTL DEF PromptInv

-----------------------------------------------------------------------------
LEMMA SettleImplements ==
  ASSUME PromptInv, NEW c \in Consent, NEW d \in Decision, Settle(c, d), UNCHANGED clicked,
         d = "deny" \/ clicked[c] = d
  PROVE  Promise!Approve(c) \/ Promise!Deny(c) \/ UNCHANGED Promise!promiseVars
<1>1. CASE c \notin pending
  BY <1>1 DEF PromptInv, WindowTypeOK, Settle, Promise!promiseVars
<1>2. CASE c \in pending
  BY <1>2 DEF PromptInv, WindowTypeOK, Settle, Decision, Promise!Approve, Promise!Deny
<1> QED BY <1>1, <1>2

LEMMA StepImplements ==
  ASSUME PromptInv, [WindowNext]_windowVars
  PROVE  [Promise!Next]_(Promise!promiseVars)
<1>1. CASE UNCHANGED windowVars
  BY <1>1 DEF windowVars, worker, popup, Promise!promiseVars
<1>2. CASE WorkerDies
  BY <1>2 DEF WorkerDies, popup, Promise!Next, Promise!LoseAll
<1>3. ASSUME NEW c \in Consent, NEW d \in Decision, Click(c, d)
      PROVE  Promise!Decide(c, d)
  BY <1>3 DEF PromptInv, WindowTypeOK, WindowInv, Click, worker, Promise!Decide
<1>4. ASSUME NEW c \in Consent, Ask(c)
      PROVE  Promise!Ask(c)
  BY <1>4 DEF Ask, popup, Promise!Ask
<1>5. ASSUME NEW c \in Consent, CreateFails(c) \/ Result(c) \/ GraceEnds(c)
      PROVE  Promise!Approve(c) \/ Promise!Deny(c) \/ UNCHANGED Promise!promiseVars
  BY <1>5, SettleImplements DEF PromptInv, WindowTypeOK, CreateFails, Result, GraceEnds, Decision
<1>6. ASSUME NEW c \in Consent,
             Opens(c) \/ Created(c) \/ Removed(c) \/ CloseAcked(c) \/ SendFails(c) \/ Dismiss(c)
      PROVE  UNCHANGED Promise!promiseVars
  BY <1>6 DEF Opens, Created, Removed, CloseAcked, SendFails, Dismiss, worker, popup,
              Promise!promiseVars
<1> QED
  BY <1>1, <1>2, <1>3, <1>4, <1>5, <1>6 DEF WindowNext, Handle, Promise!Next, Promise!Decision, Decision

\* Every step of worker, browser, popup and human is one the promise allows.
THEOREM WindowsKeepPromise == WindowSpec => KeepsPromise
<1>1. WindowInit => Promise!Init
  BY DEF WindowInit, Promise!Init
<1> QED BY <1>1, PromptInvariant, StepImplements, PTL DEF WindowSpec, KeepsPromise, Promise!Spec

-----------------------------------------------------------------------------
(***************************************************************************)
(* The replay ledger, for any number of requests, digests and handlers.    *)
(* Types and the bound need the ledger's order: a full ledger has a first  *)
(* entry to evict.  A digest is issued once, and from then on it is in one *)
(* place: the refusal a handler is about to record, an entry, or a skip    *)
(* (OnePlace); a skip takes the entry's digest out of the ledger, so no    *)
(* later one can be backed by it.                                          *)
(***************************************************************************)

(* The invariants.                                                         *)

\* The ledger's order is one of insertion: strict, and of all entries.
Ordered ==
  /\ order \subseteq (DOMAIN ledger) \X (DOMAIN ledger)
  /\ \A j, k \in DOMAIN ledger : j # k => (<<j, k>> \in order <=> <<k, j>> \notin order)
  /\ \A k \in DOMAIN ledger : <<k, k>> \notin order
  /\ \A i, j, k \in DOMAIN ledger :
       <<i, j>> \in order /\ <<j, k>> \in order => <<i, k>> \in order

Bounded == IsFiniteSet(DOMAIN ledger) /\ Cardinality(DOMAIN ledger) <= MaxEntries

Skip == [key : Key, digest : Digest, age : Nat]

Types ==
  /\ DOMAIN ledger \subseteq Key /\ \A k \in DOMAIN ledger : ledger[k] \in Entry
  /\ now \in 0..MaxTime
  /\ pc \in [Handler -> {"idle", "confirm", "sent", "refused"}]
  /\ key \in [Handler -> Key \cup {Nothing}]
  /\ \A h \in Handler : pc[h] # "idle" => key[h] \in Key
  /\ reply \in [Handler -> Digest \cup {Nothing}]
  /\ \A h \in Handler : pc[h] = "refused" => reply[h] \in Digest
  /\ owner \in [Digest -> Key \cup {Nothing}]
  /\ approved \subseteq Digest /\ told \subseteq approved /\ late \subseteq told
  /\ skips \in Seq(Skip)
  /\ \A k \in DOMAIN ledger : ledger[k].at <= now

\* What is in the ledger or taken from it was issued for its request; what is granted
\* or taken was approved; what was taken was young.
Backing ==
  /\ \A h \in Handler : pc[h] = "refused" => owner[reply[h]] = key[h]
  /\ \A k \in DOMAIN ledger :
       /\ owner[ledger[k].digest] = k
       /\ ledger[k].granted => ledger[k].digest \in approved
  /\ SkipIsBacked

\* A digest is in one place.
OnePlace ==
  /\ \A g, h \in Handler :
       pc[g] = "refused" /\ pc[h] = "refused" /\ reply[g] = reply[h] => g = h
  /\ \A h \in Handler : pc[h] = "refused" =>
       /\ \A k \in DOMAIN ledger : ledger[k].digest # reply[h]
       /\ \A i \in DOMAIN skips : skips[i].digest # reply[h]
  /\ \A k \in DOMAIN ledger : \A i \in DOMAIN skips : skips[i].digest # ledger[k].digest
  /\ OneSkipPerApproval

-----------------------------------------------------------------------------
(* The ledger's operations.                                                *)

\* A finite set that is strictly ordered has a first element.
LEMMA FirstElement ==
  ASSUME NEW K, IsFiniteSet(K), K # {}, NEW R,
         \A k \in K : <<k, k>> \notin R,
         \A i, j, k \in K : <<i, j>> \in R /\ <<j, k>> \in R => <<i, k>> \in R
  PROVE  \E k \in K : \A j \in K : <<j, k>> \notin R
<1> DEFINE Preds(k) == {j \in K : <<j, k>> \in R}
           T == {Preds(k) : k \in K}
<1>1. T \subseteq FiniteSubsetsOf(K) /\ T # {}
  <2>1. \A k \in K : Preds(k) \in SUBSET K
    OBVIOUS
  <2>2. \A P \in SUBSET K : IsFiniteSet(P)
    BY FS_Subset
  <2>3. \A k \in K : Preds(k) \in FiniteSubsetsOf(K)
    BY <2>1, <2>2 DEF FiniteSubsetsOf
  <2> HIDE DEF Preds
  <2> QED BY <2>3
<1>2. IsWellFoundedOn(StrictSubsetOrdering(K), FiniteSubsetsOf(K))
  BY FS_StrictSubsetOrderingWellFounded
<1>3. PICK P \in T : \A Q \in T : <<Q, P>> \notin StrictSubsetOrdering(K)
  <2> HIDE DEF T
  <2> QED BY <1>1, <1>2, WFMin
<1>4. PICK k \in K : P = Preds(k)
  BY <1>3
<1>5. ASSUME NEW j \in K, <<j, k>> \in R PROVE FALSE
  <2>1. Preds(j) \in T /\ Preds(j) \subseteq Preds(k) /\ j \in Preds(k) /\ j \notin Preds(j)
    <3>1. Preds(j) \in T
      OBVIOUS
    <3>2. Preds(j) \subseteq Preds(k)
      BY <1>5
    <3>3. j \in Preds(k) /\ j \notin Preds(j)
      BY <1>5
    <3> QED BY <3>1, <3>2, <3>3
  <2>2. Preds(j) \subseteq K /\ Preds(k) \subseteq K /\ Preds(j) # Preds(k)
    BY <2>1
  <2> HIDE DEF T, Preds
  <2>3. <<Preds(j), Preds(k)>> \in StrictSubsetOrdering(K)
    BY <2>1, <2>2 DEF StrictSubsetOrdering
  <2> QED BY <1>3, <1>4, <2>1, <2>3
<1> QED BY <1>4, <1>5

\* #prune and deletions keep the order of what stays.
LEMMA OrderKept ==
  ASSUME Ordered, NEW K \in SUBSET DOMAIN ledger, DOMAIN ledger' = K, order' = InOrder(K)
  PROVE  Ordered'
BY DEF Ordered, InOrder

\* So does Map.set, with a new entry at the end.
LEMMA OrderPut ==
  ASSUME Ordered, NEW K \in SUBSET DOMAIN ledger, NEW k, NEW e, Put(k, e, K)
  PROVE  Ordered'
<1>1. /\ DOMAIN ledger' = K \cup {k}
      /\ order' = InOrder(K) \cup ((K \ {k}) \X ({k} \ K))
  BY DEF Put
<1>2. CASE k \in K
  BY <1>1, <1>2 DEF Ordered, InOrder
<1>3. CASE k \notin K
  BY <1>1, <1>3 DEF Ordered, InOrder
<1> QED BY <1>2, <1>3

\* What the operations do to the entries: consumeIfArmed takes the request's own or
\* none, recordGranted grants those of the digest, recordConsentRequired adds a new one.
LEMMA ConsumedEntries ==
  ASSUME NEW k, Consumed(k)
  PROVE  /\ DOMAIN ledger' \subseteq DOMAIN ledger /\ DOMAIN ledger' \subseteq Live
         /\ Armed(k) => k \notin DOMAIN ledger'
         /\ \A j \in DOMAIN ledger' : ledger'[j] = ledger[j]
BY DEF Consumed, Keep, Live

LEMMA GrantedEntries ==
  ASSUME Types, NEW g, Granted(g)
  PROVE  /\ DOMAIN ledger' \subseteq DOMAIN ledger
         /\ \A j \in DOMAIN ledger' :
              /\ ledger'[j].digest = ledger[j].digest /\ ledger'[j].at = ledger[j].at
              /\ ledger'[j].granted <=> (ledger[j].granted \/ ledger[j].digest = g)
              /\ ledger'[j] \in Entry
<1>1. DOMAIN ledger' = Live /\ Live \subseteq DOMAIN ledger
  BY DEF Granted, Live
<1>2. ASSUME NEW j \in Live
      PROVE  /\ ledger'[j] = [ledger[j] EXCEPT !.granted = @ \/ ledger[j].digest = g]
             /\ ledger[j] \in Entry
  BY <1>1 DEF Granted, Types
<1>3. ASSUME NEW e \in Entry, NEW f, f = [e EXCEPT !.granted = @ \/ e.digest = g]
      PROVE  /\ f.digest = e.digest /\ f.at = e.at /\ f \in Entry
             /\ f.granted <=> (e.granted \/ e.digest = g)
  BY <1>3 DEF Entry
<1> QED BY <1>1, <1>2, <1>3

LEMMA RecordEntries ==
  ASSUME NEW k, NEW g, Record(k, g)
  PROVE  /\ DOMAIN ledger' \subseteq (DOMAIN ledger) \cup {k}
         /\ \A j \in DOMAIN ledger' : ledger'[j] =
              IF j = k THEN [digest |-> g, granted |-> FALSE, at |-> now] ELSE ledger[j]
BY DEF Record, Put, Live

\* A full ledger has a first entry, which makes room for the new one.
LEMMA RecordBounded ==
  ASSUME Types, Ordered, Bounded, NEW k \in Key, NEW g \in Digest, Record(k, g)
  PROVE  Bounded'
<1> DEFINE kept == Live \ Evicted(k)
<1>1. DOMAIN ledger' = kept \cup {k}
  BY DEF Record, Put
<1>2. /\ IsFiniteSet(Live) /\ Cardinality(Live) <= MaxEntries
      /\ Cardinality(Live) \in Nat
  <2>1. Live \in SUBSET DOMAIN ledger
    BY DEF Live
  <2>2. IsFiniteSet(Live) /\ Cardinality(Live) <= Cardinality(DOMAIN ledger)
    BY <2>1, FS_Subset DEF Bounded
  <2>3. Cardinality(Live) \in Nat /\ Cardinality(DOMAIN ledger) \in Nat
    BY <2>2, FS_CardinalityType DEF Bounded
  <2> QED BY <2>2, <2>3, ReplayAssumption DEF Bounded
<1>3. CASE k \in Live
  <2>1. kept \cup {k} = Live
    BY <1>3 DEF Evicted
  <2> QED BY <1>1, <1>2, <2>1 DEF Bounded
<1>4. CASE k \notin Live
  <2>1. IsFiniteSet(kept) /\ Cardinality(kept) \in Nat /\ Cardinality(kept) < MaxEntries
    <3>1. CASE Cardinality(Live) < MaxEntries
      <4>1. Evicted(k) = {}
        BY <1>2, <3>1, ReplayAssumption DEF Evicted
      <4>2. kept = Live
        BY <4>1
      <4> QED BY <1>2, <3>1, <4>2
    <3>2. CASE Cardinality(Live) >= MaxEntries
      <4>1. Evicted(k) = First
        BY <1>4, <3>2 DEF Evicted
      <4>2. Live # {}
        BY <3>2, FS_EmptySet, ReplayAssumption
      <4>3. PICK f \in First : f \in Live
        <5>1. \E f \in Live : \A j \in Live : <<j, f>> \notin order
          <6>1. Live \subseteq DOMAIN ledger
            BY DEF Live
          <6>2. /\ \A k1 \in Live : <<k1, k1>> \notin order
                /\ \A k1, k2, k3 \in Live :
                     <<k1, k2>> \in order /\ <<k2, k3>> \in order => <<k1, k3>> \in order
            BY <6>1 DEF Ordered
          <6> QED BY <1>2, <4>2, <6>2, FirstElement, SMTT(60)
        <5> QED BY <5>1 DEF First
      <4>4. kept \in SUBSET (Live \ {f})
        BY <4>1, <4>3
      <4>5. IsFiniteSet(Live \ {f}) /\ Cardinality(Live \ {f}) = Cardinality(Live) - 1
        BY <1>2, <4>3, FS_RemoveElement
      <4>6. IsFiniteSet(kept) /\ Cardinality(kept) <= Cardinality(Live \ {f})
        BY <4>4, <4>5, FS_Subset
      <4>7. Cardinality(kept) \in Nat
        BY <4>6, FS_CardinalityType
      <4> QED BY <1>2, <4>5, <4>6, <4>7, ReplayAssumption
    <3> QED BY <1>2, <3>1, <3>2, ReplayAssumption
  <2>2. IsFiniteSet(kept \cup {k}) /\ Cardinality(kept \cup {k}) <= Cardinality(kept) + 1
    BY <2>1, FS_AddElement
  <2>3. Cardinality(kept \cup {k}) \in Nat
    BY <2>2, FS_CardinalityType
  <2> QED BY <1>1, <2>1, <2>2, <2>3, ReplayAssumption DEF Bounded
<1> QED BY <1>3, <1>4

\* What only deletes keeps the bound.
LEMMA BoundKept ==
  ASSUME Bounded, DOMAIN ledger' \subseteq DOMAIN ledger
  PROVE  Bounded'
<1>1. IsFiniteSet(DOMAIN ledger') /\ Cardinality(DOMAIN ledger') <= Cardinality(DOMAIN ledger)
  BY FS_Subset DEF Bounded
<1>2. Cardinality(DOMAIN ledger') \in Nat /\ Cardinality(DOMAIN ledger) \in Nat
  BY <1>1, FS_CardinalityType DEF Bounded
<1> QED BY <1>1, <1>2, ReplayAssumption DEF Bounded

-----------------------------------------------------------------------------
(* Types, the order and the bound.                                         *)

LEMMA TypesStep ==
  ASSUME Types, [ReplayNext]_replayVars
  PROVE  Types'
<1> USE DEF Types
<1> USE ReplayAssumption
<1>1. ASSUME NEW h \in Handler, NEW k \in Key, Submit(h, k) PROVE Types'
  <2>1. /\ DOMAIN ledger' \subseteq DOMAIN ledger
        /\ \A j \in DOMAIN ledger' : ledger'[j] = ledger[j]
    BY <1>1, ConsumedEntries DEF Submit
  <2>2. skips' \in Seq(Skip)
    <3>1. CASE Armed(k)
      <4>1. ledger[k] \in Entry /\ ledger[k].at <= now
        BY <3>1 DEF Armed, Live
      <4>2. now - ledger[k].at \in Nat
        BY <4>1 DEF Entry
      <4>3. [key |-> k, digest |-> ledger[k].digest, age |-> now - ledger[k].at] \in Skip
        BY <4>1, <4>2 DEF Skip, Entry
      <4> HIDE DEF Types
      <4>4. skips \in Seq(Skip)
        BY DEF Types
      <4> QED BY <1>1, <3>1, <4>3, <4>4, AppendProperties DEF Submit
    <3>2. CASE ~Armed(k)
      BY <1>1, <3>2 DEF Submit
    <3> QED BY <3>1, <3>2
  <2> QED BY <1>1, <2>1, <2>2 DEF Submit, agent
<1>2. ASSUME NEW h \in Handler, NEW yes \in BOOLEAN, Confirm(h, yes) PROVE Types'
  BY <1>2 DEF Confirm, replays, agent
<1>3. ASSUME NEW h \in Handler, Refused(h) PROVE Types'
  <2>1. key[h] \in Key /\ reply[h] \in Digest
    BY <1>3 DEF Refused
  <2>2. /\ DOMAIN ledger' \subseteq (DOMAIN ledger) \cup {key[h]}
        /\ \A j \in DOMAIN ledger' :
             ledger'[j] = IF j = key[h] THEN [digest |-> reply[h], granted |-> FALSE, at |-> now]
                          ELSE ledger[j]
    BY <1>3, RecordEntries DEF Refused
  <2>3. ASSUME NEW j \in DOMAIN ledger' PROVE ledger'[j] \in Entry /\ ledger'[j].at <= now
    <3>1. CASE j = key[h]
      <4>1. ledger'[j] = [digest |-> reply[h], granted |-> FALSE, at |-> now]
        BY <2>2, <3>1
      <4> QED BY <2>1, <4>1 DEF Entry
    <3>2. CASE j # key[h]
      BY <2>2, <3>2
    <3> QED BY <3>1, <3>2
  <2> QED BY <1>3, <2>1, <2>2, <2>3 DEF Refused, agent
<1>4. ASSUME NEW h \in Handler, AgentConcludes(h) PROVE Types'
  BY <1>4 DEF AgentConcludes, replays, agent
<1>5. ASSUME NEW h \in Handler, NEW g \in Digest, AgentRefuses(h, g) PROVE Types'
  BY <1>5 DEF AgentRefuses, replays
<1>6. ASSUME NEW g \in Digest, Approve(g) PROVE Types'
  BY <1>6 DEF Approve, replays, handlers
<1>7. ASSUME NEW g \in Digest, Notice(g) PROVE Types'
  <2>1. /\ DOMAIN ledger' \subseteq DOMAIN ledger
        /\ \A j \in DOMAIN ledger' : ledger'[j] \in Entry /\ ledger'[j].at = ledger[j].at
    BY <1>7, GrantedEntries DEF Notice
  <2> QED BY <1>7, <2>1 DEF Notice, handlers, agent
<1>8. CASE Restart
  BY <1>8 DEF Restart, NoEntries, agent
<1>9. CASE Elapse
  <2>1. \A k \in DOMAIN ledger : ledger[k].at <= now + 1
    BY DEF Entry
  <2> QED BY <1>9, <2>1 DEF Elapse, replays, handlers, agent
<1>10. CASE UNCHANGED replayVars
  BY <1>10 DEF replayVars, replays, handlers, agent
<1> QED BY <1>1, <1>2, <1>3, <1>4, <1>5, <1>6, <1>7, <1>8, <1>9, <1>10 DEF ReplayNext

LEMMA LedgerStep ==
  ASSUME Types, Ordered, Bounded, [ReplayNext]_replayVars
  PROVE  Ordered' /\ Bounded'
<1>0. Live \subseteq DOMAIN ledger
  BY DEF Live
<1>1. ASSUME NEW K \in SUBSET DOMAIN ledger, DOMAIN ledger' = K, order' = InOrder(K)
      PROVE  Ordered' /\ Bounded'
  BY <1>1, OrderKept, BoundKept
<1>2. ASSUME NEW h \in Handler, NEW k \in Key, Submit(h, k) PROVE Ordered' /\ Bounded'
  <2>1. PICK K \in SUBSET DOMAIN ledger : DOMAIN ledger' = K /\ order' = InOrder(K)
    BY <1>0, <1>2 DEF Submit, Consumed, Keep
  <2> QED BY <1>1, <2>1
<1>3. ASSUME NEW h \in Handler, Refused(h) PROVE Ordered' /\ Bounded'
  <2>1. key[h] \in Key /\ reply[h] \in Digest /\ Record(key[h], reply[h])
    BY <1>3 DEF Refused, Types
  <2>2. Bounded'
    BY <2>1, RecordBounded
  <2>3. Live \ Evicted(key[h]) \in SUBSET DOMAIN ledger
    BY <1>0
  <2>4. Ordered'
    BY <2>1, <2>3, OrderPut DEF Record
  <2> QED BY <2>2, <2>4
<1>4. ASSUME NEW g \in Digest, Notice(g) PROVE Ordered' /\ Bounded'
  <2>1. DOMAIN ledger' = Live /\ order' = InOrder(Live)
    BY <1>4 DEF Notice, Granted
  <2> QED BY <1>0, <1>1, <2>1
<1>5. CASE Restart
  <2>1. DOMAIN ledger' = {} /\ order' = {}
    BY <1>5 DEF Restart, NoEntries
  <2> QED BY <2>1, FS_EmptySet, ReplayAssumption DEF Ordered, Bounded
<1>6. CASE UNCHANGED replays
  BY <1>6 DEF replays, Ordered, Bounded
<1>7. ASSUME NEW h \in Handler,
             (\E yes \in BOOLEAN : Confirm(h, yes)) \/ AgentConcludes(h)
               \/ \E g \in Digest : AgentRefuses(h, g)
      PROVE  UNCHANGED replays
  BY <1>7 DEF Confirm, AgentConcludes, AgentRefuses
<1>8. CASE Elapse \/ (\E g \in Digest : Approve(g)) \/ UNCHANGED replayVars
  BY <1>6, <1>8 DEF Elapse, Approve, replayVars
<1> QED BY <1>2, <1>3, <1>4, <1>5, <1>6, <1>7, <1>8 DEF ReplayNext

-----------------------------------------------------------------------------
(* What a skip rests on.                                                   *)

\* The skips after a submit: the old ones, and one more if the request was exempt.
LEMMA SubmitSkips ==
  ASSUME Types, NEW h \in Handler, NEW k \in Key, Submit(h, k)
  PROVE  \/ skips' = skips
         \/ /\ Armed(k) /\ k \in DOMAIN ledger
            /\ \A i \in DOMAIN skips : i \in DOMAIN skips' /\ skips'[i] = skips[i]
            /\ \A i \in DOMAIN skips' :
                 \/ i \in DOMAIN skips /\ skips'[i] = skips[i]
                 \/ /\ i = Len(skips) + 1 /\ i \notin DOMAIN skips
                    /\ skips'[i].key = k /\ skips'[i].digest = ledger[k].digest
                    /\ skips'[i].age < Ttl
<1>1. CASE ~Armed(k)
  BY <1>1 DEF Submit
<1>2. CASE Armed(k)
  <2> DEFINE e == [key |-> k, digest |-> ledger[k].digest, age |-> now - ledger[k].at]
  <2>1. /\ k \in DOMAIN ledger /\ ledger[k] \in Entry /\ ledger[k].at <= now
        /\ ledger[k].at + Ttl > now
    BY <1>2 DEF Armed, Live, Types
  <2>2. now - ledger[k].at \in Nat /\ now - ledger[k].at < Ttl
    BY <2>1, ReplayAssumption DEF Types, Entry
  <2>3. e \in Skip /\ e.key = k /\ e.digest = ledger[k].digest /\ e.age < Ttl
    BY <2>1, <2>2 DEF Skip, Entry
  <2>4. skips \in Seq(Skip) /\ skips' = Append(skips, e)
    BY <1>2 DEF Submit, Types
  <2> HIDE DEF e
  <2>5. /\ skips' \in Seq(Skip) /\ Len(skips) \in Nat /\ Len(skips') = Len(skips) + 1
        /\ \A i \in 1..Len(skips) : skips'[i] = skips[i]
        /\ skips'[Len(skips) + 1] = e
    BY <2>3, <2>4, AppendProperties, LenProperties
  <2>6. DOMAIN skips = 1..Len(skips) /\ DOMAIN skips' = 1..(Len(skips) + 1)
    BY <2>4, <2>5, LenProperties
  <2> QED BY <1>2, <2>1, <2>3, <2>5, <2>6
<1> QED BY <1>1, <1>2

\* Steps that touch neither the ledger nor what it rests on.
Aside ==
  /\ UNCHANGED <<replays, owner, skips>> /\ approved \subseteq approved'
  /\ \A h \in Handler : pc'[h] = "refused" =>
       pc[h] = "refused" /\ key'[h] = key[h] /\ reply'[h] = reply[h]

LEMMA AsideSteps ==
  ASSUME Types, [ReplayNext]_replayVars
  PROVE  \/ Aside \/ Restart
         \/ \E h \in Handler : \/ Refused(h)
                               \/ \E k \in Key : Submit(h, k)
                               \/ \E g \in Digest : AgentRefuses(h, g)
         \/ \E g \in Digest : Notice(g)
<1> USE DEF Types
<1>1. ASSUME NEW h \in Handler, (\E yes \in BOOLEAN : Confirm(h, yes)) \/ AgentConcludes(h)
      PROVE  Aside
  BY <1>1 DEF Confirm, AgentConcludes, Aside, agent
<1>2. CASE Elapse \/ UNCHANGED replayVars
  BY <1>2 DEF Elapse, replayVars, handlers, agent, replays, Aside
<1>3. ASSUME NEW g \in Digest, Approve(g) PROVE Aside
  BY <1>3 DEF Approve, handlers, replays, Aside
<1> QED BY <1>1, <1>2, <1>3 DEF ReplayNext

LEMMA BackingStep ==
  ASSUME Types, Backing, [ReplayNext]_replayVars
  PROVE  Backing'
<1> USE DEF Types
<1>1. CASE Aside
  BY <1>1 DEF Aside, replays, Backing, SkipIsBacked
<1>2. CASE Restart
  BY <1>2 DEF Restart, NoEntries, agent, Backing, SkipIsBacked
<1>3. ASSUME NEW h \in Handler, NEW k \in Key, Submit(h, k) PROVE Backing'
  <2>1. /\ UNCHANGED <<owner, approved, reply>>
        /\ \A g \in Handler : pc'[g] = "refused" => pc[g] = "refused" /\ key'[g] = key[g]
    BY <1>3 DEF Submit, agent
  <2>2. /\ DOMAIN ledger' \subseteq DOMAIN ledger
        /\ \A j \in DOMAIN ledger' : ledger'[j] = ledger[j]
    BY <1>3, ConsumedEntries DEF Submit
  <2>3. SkipIsBacked'
    <3>1. Armed(k) => owner[ledger[k].digest] = k /\ ledger[k].digest \in approved
      BY DEF Backing, Armed, Live
    <3> HIDE DEF Types
    <3> QED BY <1>3, <2>1, <3>1, SubmitSkips DEF Backing, SkipIsBacked
  <2> QED BY <2>1, <2>2, <2>3 DEF Backing
<1>4. ASSUME NEW h \in Handler, Refused(h) PROVE Backing'
  <2>1. /\ UNCHANGED <<owner, approved, skips, key>>
        /\ \A g \in Handler : pc'[g] = "refused" => pc[g] = "refused" /\ reply'[g] = reply[g]
    BY <1>4 DEF Refused, agent
  <2>2. /\ DOMAIN ledger' \subseteq (DOMAIN ledger) \cup {key[h]}
        /\ \A j \in DOMAIN ledger' : ledger'[j] =
             IF j = key[h] THEN [digest |-> reply[h], granted |-> FALSE, at |-> now]
             ELSE ledger[j]
    BY <1>4, RecordEntries DEF Refused
  <2>3. owner[reply[h]] = key[h]
    BY <1>4 DEF Refused, Backing
  <2>4. ASSUME NEW j \in DOMAIN ledger'
        PROVE  owner'[ledger'[j].digest] = j /\ (ledger'[j].granted => ledger'[j].digest \in approved')
    <3>1. CASE j = key[h]
      <4>1. ledger'[j].digest = reply[h] /\ ~ledger'[j].granted
        BY <2>2, <3>1
      <4> QED BY <2>1, <2>3, <3>1, <4>1
    <3>2. CASE j # key[h]
      BY <2>1, <2>2, <3>2 DEF Backing
    <3> QED BY <3>1, <3>2
  <2> QED BY <2>1, <2>4 DEF Backing, SkipIsBacked
<1>5. ASSUME NEW h \in Handler, NEW g \in Digest, AgentRefuses(h, g) PROVE Backing'
  <2>1. /\ UNCHANGED <<ledger, approved, skips, key>>
        /\ owner' = [owner EXCEPT ![g] = key[h]] /\ reply' = [reply EXCEPT ![h] = g]
        /\ pc' = [pc EXCEPT ![h] = "refused"] /\ owner[g] = Nothing /\ key[h] \in Key
    BY <1>5 DEF AgentRefuses, replays
  <2>2. \A f \in Digest : owner[f] # Nothing => owner'[f] = owner[f]
    BY <2>1
  <2>3. \A i \in DOMAIN skips : skips[i] \in Skip
    BY LenProperties
  <2>4. SkipIsBacked'
    BY <2>1, <2>2, <2>3, ReplayAssumption DEF Backing, SkipIsBacked, Skip
  <2>5. \A k \in DOMAIN ledger : owner'[ledger[k].digest] = k
    BY <2>2, ReplayAssumption DEF Backing, Entry
  <2>6. ASSUME NEW f \in Handler, pc'[f] = "refused" PROVE owner'[reply'[f]] = key'[f]
    <3>1. CASE f = h
      BY <2>1, <3>1
    <3>2. CASE f # h
      <4>1. pc[f] = "refused" /\ reply'[f] = reply[f] /\ key'[f] = key[f]
        BY <2>1, <2>6, <3>2
      <4>2. owner[reply[f]] = key[f] /\ key[f] \in Key /\ reply[f] \in Digest
        BY <4>1 DEF Backing
      <4>3. owner'[reply[f]] = owner[reply[f]]
        BY <2>2, <4>2, ReplayAssumption
      <4> QED BY <4>1, <4>2, <4>3
    <3> QED BY <3>1, <3>2
  <2> QED BY <2>1, <2>4, <2>5, <2>6 DEF Backing
<1>6. ASSUME NEW g \in Digest, Notice(g) PROVE Backing'
  <2>1. /\ UNCHANGED <<owner, approved, skips, pc, key, reply>> /\ g \in approved
    BY <1>6 DEF Notice, handlers, agent
  <2>2. /\ DOMAIN ledger' \subseteq DOMAIN ledger
        /\ \A j \in DOMAIN ledger' :
             /\ ledger'[j].digest = ledger[j].digest
             /\ ledger'[j].granted <=> (ledger[j].granted \/ ledger[j].digest = g)
    BY <1>6, GrantedEntries DEF Notice
  <2>3. \A j \in DOMAIN ledger' : ledger'[j].granted => ledger'[j].digest \in approved
    BY <2>1, <2>2 DEF Backing
  <2> QED BY <2>1, <2>2, <2>3 DEF Backing, SkipIsBacked
<1> QED BY <1>1, <1>2, <1>3, <1>4, <1>5, <1>6, AsideSteps

-----------------------------------------------------------------------------
(* A digest is in one place.                                               *)

LEMMA OnePlaceStep ==
  ASSUME Types, Backing, OnePlace, [ReplayNext]_replayVars
  PROVE  OnePlace'
<1> USE DEF Types
<1>1. CASE Aside
  BY <1>1 DEF Aside, replays, OnePlace, OneSkipPerApproval
<1>2. CASE Restart
  BY <1>2 DEF Restart, NoEntries, OnePlace, OneSkipPerApproval
<1>3. ASSUME NEW h \in Handler, NEW k \in Key, Submit(h, k) PROVE OnePlace'
  <2>1. /\ reply' = reply
        /\ \A g \in Handler : pc'[g] = "refused" => pc[g] = "refused"
    BY <1>3 DEF Submit
  <2>2. /\ DOMAIN ledger' \subseteq DOMAIN ledger
        /\ \A j \in DOMAIN ledger' : ledger'[j] = ledger[j]
        /\ Armed(k) => k \notin DOMAIN ledger'
    BY <1>3, ConsumedEntries DEF Submit
  <2>3. CASE skips' = skips
    BY <2>1, <2>2, <2>3 DEF OnePlace, OneSkipPerApproval
  <2>4. CASE /\ Armed(k) /\ k \in DOMAIN ledger
             /\ \A i \in DOMAIN skips : i \in DOMAIN skips' /\ skips'[i] = skips[i]
             /\ \A i \in DOMAIN skips' :
                  \/ i \in DOMAIN skips /\ skips'[i] = skips[i]
                  \/ /\ i = Len(skips) + 1 /\ i \notin DOMAIN skips
                     /\ skips'[i].digest = ledger[k].digest
    <3>1. OneSkipPerApproval'
      BY <2>4 DEF OnePlace, OneSkipPerApproval
    <3>2. ASSUME NEW j \in DOMAIN ledger', NEW i \in DOMAIN skips'
          PROVE  skips'[i].digest # ledger'[j].digest
      <4>1. j \in DOMAIN ledger /\ j # k /\ ledger'[j] = ledger[j]
        BY <2>2, <2>4
      <4>2. ledger[j].digest # ledger[k].digest
        BY <2>4, <4>1 DEF Backing
      <4> QED BY <2>4, <4>1, <4>2 DEF OnePlace
    <3>3. ASSUME NEW g \in Handler, pc'[g] = "refused", NEW i \in DOMAIN skips'
          PROVE  skips'[i].digest # reply'[g]
      BY <2>1, <2>4, <3>3 DEF OnePlace
    <3> QED BY <2>1, <2>2, <3>1, <3>2, <3>3 DEF OnePlace
  <2> QED BY <1>3, <2>3, <2>4, SubmitSkips
<1>4. ASSUME NEW h \in Handler, Refused(h) PROVE OnePlace'
  <2>1. /\ skips' = skips /\ pc[h] = "refused" /\ pc'[h] # "refused"
        /\ \A g \in Handler : pc'[g] = "refused" => g # h /\ pc[g] = "refused" /\ reply'[g] = reply[g]
    BY <1>4 DEF Refused
  <2>2. /\ DOMAIN ledger' \subseteq (DOMAIN ledger) \cup {key[h]}
        /\ \A j \in DOMAIN ledger' : ledger'[j] =
             IF j = key[h] THEN [digest |-> reply[h], granted |-> FALSE, at |-> now]
             ELSE ledger[j]
    BY <1>4, RecordEntries DEF Refused
  <2>3. \A j \in DOMAIN ledger' :
          \/ ledger'[j].digest = reply[h]
          \/ j \in DOMAIN ledger /\ ledger'[j].digest = ledger[j].digest
    BY <2>2
  <2>4. ASSUME NEW g \in Handler, pc'[g] = "refused"
        PROVE  /\ \A j \in DOMAIN ledger' : ledger'[j].digest # reply'[g]
               /\ \A i \in DOMAIN skips' : skips'[i].digest # reply'[g]
    BY <2>1, <2>3, <2>4 DEF OnePlace
  <2>5. \A j \in DOMAIN ledger' : \A i \in DOMAIN skips' : skips'[i].digest # ledger'[j].digest
    BY <2>1, <2>3 DEF OnePlace
  <2> QED BY <2>1, <2>4, <2>5 DEF OnePlace, OneSkipPerApproval
<1>5. ASSUME NEW h \in Handler, NEW g \in Digest, AgentRefuses(h, g) PROVE OnePlace'
  <2>1. /\ UNCHANGED <<ledger, skips>> /\ owner[g] = Nothing
        /\ reply' = [reply EXCEPT ![h] = g] /\ pc' = [pc EXCEPT ![h] = "refused"]
    BY <1>5 DEF AgentRefuses, replays
  <2>2. \A k \in DOMAIN ledger : ledger[k].digest # g
    BY <2>1, ReplayAssumption DEF Backing
  <2>3. \A i \in DOMAIN skips : skips[i].digest # g
    <3>1. \A i \in DOMAIN skips : skips[i] \in Skip
      BY LenProperties
    <3> QED BY <2>1, <3>1, ReplayAssumption DEF Backing, SkipIsBacked, Skip
  <2>4. \A f \in Handler : pc[f] = "refused" => reply[f] # g
    BY <2>1, ReplayAssumption DEF Backing
  <2>5. \A f \in Handler : pc'[f] = "refused" =>
          (f = h /\ reply'[f] = g) \/ (f # h /\ pc[f] = "refused" /\ reply'[f] = reply[f])
    BY <2>1
  <2>6. ASSUME NEW e \in Handler, NEW f \in Handler, pc'[e] = "refused", pc'[f] = "refused",
               reply'[e] = reply'[f]
        PROVE  e = f
    BY <2>4, <2>5, <2>6 DEF OnePlace
  <2> QED BY <2>1, <2>2, <2>3, <2>5, <2>6 DEF OnePlace, OneSkipPerApproval
<1>6. ASSUME NEW g \in Digest, Notice(g) PROVE OnePlace'
  <2>1. UNCHANGED <<pc, reply, skips>>
    BY <1>6 DEF Notice, handlers
  <2>2. /\ DOMAIN ledger' \subseteq DOMAIN ledger
        /\ \A j \in DOMAIN ledger' : ledger'[j].digest = ledger[j].digest
    BY <1>6, GrantedEntries DEF Notice
  <2> QED BY <2>1, <2>2 DEF OnePlace, OneSkipPerApproval
<1> QED BY <1>1, <1>2, <1>3, <1>4, <1>5, <1>6, AsideSteps

\* A grant arms its entry before it is announced, and an entry stays armed until it is
\* consumed, pruned or refused again.
LEMMA ArmedStep ==
  ASSUME Types, AnnouncedIsArmed, [ReplayNext]_replayVars
  PROVE  AnnouncedIsArmed'
<1>1. CASE UNCHANGED <<ledger, told, late>>
  BY <1>1 DEF AnnouncedIsArmed
<1>2. CASE Restart
  BY <1>2 DEF Restart, NoEntries, AnnouncedIsArmed
<1>3. ASSUME NEW h \in Handler, NEW k \in Key, Submit(h, k) PROVE AnnouncedIsArmed'
  BY <1>3, ConsumedEntries DEF Submit, AnnouncedIsArmed
<1>4. ASSUME NEW h \in Handler, Refused(h) PROVE AnnouncedIsArmed'
  <2>1. told' = told /\ late' = late \cup ({reply[h]} \cap told)
    BY <1>4 DEF Refused
  <2>2. \A j \in DOMAIN ledger' :
          \/ ledger'[j].digest = reply[h]
          \/ j \in DOMAIN ledger /\ ledger'[j] = ledger[j]
    <3>1. /\ DOMAIN ledger' \subseteq (DOMAIN ledger) \cup {key[h]}
          /\ \A j \in DOMAIN ledger' : ledger'[j] =
               IF j = key[h] THEN [digest |-> reply[h], granted |-> FALSE, at |-> now]
               ELSE ledger[j]
      BY <1>4, RecordEntries DEF Refused
    <3> QED BY <3>1
  <2> QED BY <2>1, <2>2 DEF AnnouncedIsArmed
<1>5. ASSUME NEW g \in Digest, Notice(g) PROVE AnnouncedIsArmed'
  <2>1. told' = told \cup {g} /\ late' = late
    BY <1>5 DEF Notice
  <2>2. /\ DOMAIN ledger' \subseteq DOMAIN ledger
        /\ \A j \in DOMAIN ledger' :
             /\ ledger'[j].digest = ledger[j].digest
             /\ ledger'[j].granted <=> (ledger[j].granted \/ ledger[j].digest = g)
    BY <1>5, GrantedEntries DEF Notice
  <2> QED BY <2>1, <2>2 DEF AnnouncedIsArmed
<1>6. ASSUME NEW h \in Handler,
             (\E yes \in BOOLEAN : Confirm(h, yes)) \/ AgentConcludes(h)
               \/ \E g \in Digest : AgentRefuses(h, g)
      PROVE  UNCHANGED <<ledger, told, late>>
  BY <1>6 DEF Confirm, AgentConcludes, AgentRefuses, replays
<1>7. CASE Elapse \/ (\E g \in Digest : Approve(g)) \/ UNCHANGED replayVars
  BY <1>1, <1>7 DEF Elapse, Approve, replayVars, replays
<1> QED BY <1>1, <1>2, <1>3, <1>4, <1>5, <1>6, <1>7 DEF ReplayNext

-----------------------------------------------------------------------------
ReplayInv == Types /\ Ordered /\ Bounded /\ Backing /\ OnePlace /\ AnnouncedIsArmed

THEOREM ReplayInvariant == ReplaySpec => []ReplayInv
<1>1. ReplayInit => ReplayInv
  <2> SUFFICES ASSUME ReplayInit PROVE ReplayInv
    OBVIOUS
  <2>1. DOMAIN ledger = {} /\ order = {} /\ DOMAIN skips = {} /\ skips \in Seq(Skip)
    BY EmptySeq DEF ReplayInit, NoEntries
  <2>2. Types
    BY <2>1, ReplayAssumption DEF ReplayInit, Types
  <2>3. Bounded
    BY <2>1, FS_EmptySet, ReplayAssumption DEF Bounded
  <2>4. Ordered /\ AnnouncedIsArmed
    BY <2>1 DEF Ordered, AnnouncedIsArmed
  <2>5. \A h \in Handler : pc[h] # "refused"
    BY DEF ReplayInit
  <2>6. Backing /\ OnePlace
    BY <2>1, <2>5 DEF Backing, OnePlace, SkipIsBacked, OneSkipPerApproval
  <2> QED BY <2>2, <2>3, <2>4, <2>6 DEF ReplayInv
<1>2. ReplayInv /\ [ReplayNext]_replayVars => ReplayInv'
  BY TypesStep, LedgerStep, BackingStep, OnePlaceStep, ArmedStep DEF ReplayInv
<1> QED BY <1>1, <1>2, PTL DEF ReplaySpec

\* The ledger never outgrows MAX_REPLAY_ENTRIES, and everything has its type.
THEOREM LedgerTyped == ReplaySpec => []ReplayTypeOK
<1>1. ReplayInv => ReplayTypeOK
  BY ReplayAssumption DEF ReplayInv, Types, Ordered, Bounded, ReplayTypeOK
<1> QED BY <1>1, ReplayInvariant, PTL

\* Every skipped confirm was refused, approved and young (consumeIfArmed).
THEOREM SkipsAreBacked == ReplaySpec => []SkipIsBacked
<1>1. ReplayInv => SkipIsBacked
  BY DEF ReplayInv, Backing
<1> QED BY <1>1, ReplayInvariant, PTL

\* One approval exempts one replay (consumeIfArmed deletes what it uses).
THEOREM ApprovalsAreSingleUse == ReplaySpec => []OneSkipPerApproval
<1>1. ReplayInv => OneSkipPerApproval
  BY DEF ReplayInv, OnePlace
<1> QED BY <1>1, ReplayInvariant, PTL

\* An announced grant has armed its entry (recordGranted before the pages hear of it).
THEOREM AnnouncementsAreTrue == ReplaySpec => []AnnouncedIsArmed
<1>1. ReplayInv => AnnouncedIsArmed
  BY DEF ReplayInv
<1> QED BY <1>1, ReplayInvariant, PTL
=============================================================================
