------------------------------ MODULE ReviewDesk ------------------------------
(***************************************************************************)
(* What the gate promises to whoever submits reviews: a desk with one      *)
(* clerk, who answers each submission once, in one step, against a book of *)
(* the reviews accepted so far.  A review enters the book if it is not in  *)
(* it, is not of oneself and if its pair has room in the window; the book  *)
(* is never revised.  Connections, locks, transactions, the lookup of      *)
(* profiles and racing submissions do not appear here; ReviewGate          *)
(* implements this module.                                                 *)
(***************************************************************************)
EXTENDS Naturals, FiniteSets

CONSTANTS
  Requests,    \* submissions
  Form,        \* what each submits: id, rater, target, media
  RateLimit,   \* reviews of a pair in a window
  Window,      \* the time a pair has to wait
  Reasons      \* for refusing a review

VARIABLES
  clock,
  book,     \* the reviews accepted, by id: pair, media, received
  answer    \* what each submission was told

vars == <<clock, book, answer>>

PairOf(q) == <<Form[q].rater, Form[q].target>>
OfOneself(q) == Form[q].rater = Form[q].target

(* Submissions of an id that agree on the pair. *)
Stable(q) == \A s \in Requests : Form[s].id = Form[q].id => PairOf(s) = PairOf(q)

OfPair(pair) == {i \in DOMAIN book : book[i].pair = pair}
Young(pair) == {i \in OfPair(pair) : book[i].received + Window >= clock}

Init ==
  /\ clock = 0
  /\ book = [i \in {} |-> {}]
  /\ answer = [q \in Requests |-> "NONE"]

Tick == clock' = clock + 1 /\ UNCHANGED <<book, answer>>

(* The answer may be lost. *)
Accept(q) ==
  /\ Form[q].id \notin DOMAIN book /\ ~OfOneself(q)
  /\ Cardinality(Young(PairOf(q))) < RateLimit
  /\ \E received \in 0 .. clock :
       book' = [i \in DOMAIN book \cup {Form[q].id} |->
                  IF i = Form[q].id
                  THEN [pair |-> PairOf(q), media |-> Form[q].media, received |-> received]
                  ELSE book[i]]

Repeat(q) == Form[q].id \in DOMAIN book /\ UNCHANGED book

Refuse(q, code) ==
  /\ Stable(q) => Form[q].id \notin DOMAIN book
  /\ code = "SELF_REVIEW" <=> OfOneself(q)
  /\ code = "RATE_LIMITED" => Cardinality(OfPair(PairOf(q))) >= RateLimit
  /\ UNCHANGED book

Tell(q, code) ==
  /\ answer[q] = "NONE"
  /\ answer' = [answer EXCEPT ![q] = code]
  /\ UNCHANGED clock

Next ==
  \/ Tick
  \/ \E q \in {q \in Requests : answer'[q] # answer[q]} :
       \/ Tell(q, "ACCEPTED") /\ Accept(q)
       \/ Tell(q, "DUPLICATE") /\ Repeat(q)
       \/ \E code \in Reasons : Tell(q, code) /\ Refuse(q, code)
       \/ Tell(q, "ERROR") /\ (Accept(q) \/ UNCHANGED book)

Spec == Init /\ [][Next]_vars
=============================================================================
