------------------------------ MODULE LebStore ------------------------------
(***************************************************************************)
(* What UBI promises of logical eraseblocks.  For each of them there is    *)
(* the content a boot would find (disk) and the one the running system     *)
(* reads (view).  A mapped eraseblock is only appended to, or replaced as  *)
(* a whole; one that is unmapped may still be found by a boot, but only    *)
(* with what was written last.  Eraseblocks in `hurt' are not promised     *)
(* anything.                                                               *)
(***************************************************************************)
EXTENDS Naturals, Sequences

CONSTANTS Lebs, Pages, Values,   \* each write writes a greater value
          Torn                   \* a page cut while it was written

VARIABLES disk, view, hurt

Unmapped  == [m |-> FALSE, d |-> <<>>]
Mapped(s) == [m |-> TRUE, d |-> s]
Off       == [m |-> FALSE, d |-> <<Torn>>]

\* What one write leaves of itself, complete or cut.
Runs(v) == {[i \in 1 .. n |-> v] : n \in 0 .. Pages}
Cuts(v) == Runs(v) \cup {Append(r, Torn) : r \in Runs(v)}

Latest(v, c) == \A i \in 1 .. Len(c.d) : v >= c.d[i]

\* One eraseblock in one step: d to e on disk, while the view goes from u to v.
Boot(d, e, u, v)   == u = Off /\ v = d /\ e = d
Extend(d, e, u, v) == /\ u = d /\ d.m /\ v = e
                      /\ \E x \in Values : e = Mapped(Append(d.d, x))
Swap(d, e, u, v)   == /\ v = u
                      /\ \E x \in Values : /\ Latest(x, d)
                                           /\ e \in {Mapped(r) : r \in Runs(x) \ {<<>>}}
Show(d, e, u, v)   == u # Off /\ v = d /\ e = d
Forget(d, e, u, v) == u # Off /\ v = Unmapped /\ e = d
\* An unmapped eraseblock is erased or written from its start.
Renew(d, e, u)     == /\ u = Unmapped
                      /\ \/ e = Unmapped
                         \/ \E x \in Values : /\ Latest(x, d)
                                              /\ e \in {Mapped(r) : r \in Cuts(x)}
Stop(d, e, u, v)   == /\ v = Off
                      /\ \/ e = d \/ e = [d EXCEPT !.d = Append(@, Torn)]
                         \/ Renew(d, e, u)

Step(d, e, u, v) ==
  \/ e = d /\ v = u
  \/ Boot(d, e, u, v) \/ Extend(d, e, u, v) \/ Swap(d, e, u, v)
  \/ Show(d, e, u, v) \/ Forget(d, e, u, v) \/ (Renew(d, e, u) /\ v = u)
  \/ Stop(d, e, u, v)

Init == /\ \A l \in Lebs : disk[l] = Unmapped \/ \E x \in Values : disk[l] = Mapped(<<x>>)
        /\ view \in [Lebs -> {Off}]
        /\ hurt = {}

Steps(d, e, u, v) == \A l \in Lebs \ hurt' : Step(d[l], e[l], u[l], v[l])

Next == hurt \subseteq hurt' /\ Steps(disk, disk', view, view')

Spec == Init /\ [][Next]_<<disk, view, hurt>>
=============================================================================
