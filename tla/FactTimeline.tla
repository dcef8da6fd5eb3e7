---------------------------- MODULE FactTimeline ----------------------------
(***************************************************************************)
(* What the fact ledger promises about one slot (a subject and a            *)
(* predicate): it is a timeline.  A person says from which day a value      *)
(* holds; it holds until the next day something was said of, or until the   *)
(* end a person gave it.  The order in which things are said matters only    *)
(* for what is said of one and the same day.                                *)
(***************************************************************************)
EXTENDS Naturals

CONSTANTS Objects,   \* values the slot can hold
          Times,     \* days
          Never,     \* later than every day
          Unsaid     \* nothing was said of a day

VARIABLES claims,    \* what was said of each day, and the end it was given
          frayed     \* the slot stopped being a timeline

timeline == <<claims, frayed>>

Said(o, end) == [object |-> o, end |-> end]

\* A day on which what was said ended at once: it holds nothing, and bounds.
Over(t) == Said(Unsaid, t)

\* The latest day up to t that something was said of.
Latest(c, t) ==
  {s \in Times : s <= t /\ c[s] # Unsaid /\ \A u \in Times : s < u /\ u <= t => c[u] = Unsaid}

\* The day whose claim still holds on day t, if there is one.
Holding(c, t) == {s \in Latest(c, t) : t < c[s].end}

\* What the slot holds on day t: at most one value.
ValueOn(c, t) == {c[s].object : s \in Holding(c, t)}

\* The value holds from day t.  A claim that held on t and says the same hands
\* over the end it was given; any other ends there.
Tell(c, o, t) ==
  LET held == Holding(c, t)
      same == {s \in held : c[s].object = o}
      end  == IF same = {} THEN Never ELSE c[CHOOSE s \in same : TRUE].end
  IN  [u \in Times |-> IF u = t THEN Said(o, end)
                       ELSE IF u \in held THEN Said(c[u].object, Never) ELSE c[u]]

\* One day of the timeline says something else.
With(c, s, claim) == [u \in Times |-> IF u = s THEN claim ELSE c[u]]

\* What holds on day t, as claimed on day s, ends there; a day that only
\* repeats what an earlier one claimed may end with it.
EndAt(c, s, t) == With(c, s, IF s = t THEN Over(t) ELSE Said(c[s].object, t))
EndRepeated(c, s, t) == With(With(c, t, Unsaid), s, Said(c[s].object, t))

Endings(c, t) ==
  {EndAt(c, s, t) : s \in Holding(c, t)}
    \cup {EndRepeated(c, s, t) :
            s \in {u \in Latest(c, t - 1) : t \in Holding(c, t) /\ c[u] = c[t]}}

\* An end nothing was said after is taken back, and with it a day it repeated.
Reopenings(c, s) ==
  LET end   == c[s].end
      again == Said(c[s].object, Never)
  IN  IF \E u \in Times : u >= end /\ u # s /\ c[u] # Unsaid THEN {}
      ELSE IF end = s THEN {With(c, s, Said(o, Never)) : o \in Objects}
      ELSE {With(c, s, again), With(With(c, s, again), end, again)}

Follows(c, d) ==
  \/ \E t \in Times :
       \/ d[t] # Unsaid /\ \E o \in Objects : d[t].object = o /\ d = Tell(c, o, t)
       \/ d \in Endings(c, t)
       \/ c[t] # Unsaid /\ c[t].end # Never /\ d \in Reopenings(c, t)

Init == claims = [t \in Times |-> Unsaid] /\ frayed = FALSE

\* What is said again changes nothing.
Next ==
  \/ frayed'
  \/ /\ \E c \in {claims}, d \in {claims'} : c = d \/ Follows(c, d)
     /\ UNCHANGED frayed

Spec == Init /\ [][Next]_timeline
=============================================================================
