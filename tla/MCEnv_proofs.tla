---------------------------- MODULE MCEnv_proofs ----------------------------
(***************************************************************************)
(* Proofs about the redundant environment on NAND (EnvNand) and on NOR     *)
(* (EnvFlash), for every size and place of the two copies and any number   *)
(* of saves, failures, bad blocks and power losses.                        *)
(*                                                                         *)
(* What a boot would load depends on which of two copies it chooses.  The  *)
(* invariant follows the two: the one in use holds what was saved last,    *)
(* and the other one is chosen only when it holds what a save was saving   *)
(* (Known, NorKnown).  For this it keeps what every step of a save leaves  *)
(* in the copy it writes (Clearing, Filling, NorStage); on NAND also that  *)
(* a block never comes earlier in its copy than it was written (Ranked),   *)
(* and that an erase stops before the copy in use if there is room for     *)
(* the bad blocks (Clearing, Apart); on NOR that a repair, done or failed, *)
(* does not turn the order of the flags around (Leads).                    *)
(***************************************************************************)
EXTENDS MCEnv, FiniteSetTheorems, TLAPS

Contents == Values \cup {Default}

(***************************************************************************)
(* NAND.                                                                   *)
(***************************************************************************)
Envs   == [data : Contents, crc : Contents, flags : 0 .. 255]
Pieces == [st : {"part"}, k : 1 .. Size, e : Envs]
Spare  == 3 - valid          \* the copy that the next save writes

Below(G, b) == {c \in G : c < b}

Typed ==
  /\ TypeOK
  /\ flash \in [Blocks -> {Erased, Garbage} \cup Pieces]
  /\ env \in Envs /\ spoilt \in BOOLEAN /\ end \in Nat /\ tried \subseteq Contents

Ranked == \A n \in {1, 2} : \A b \in Good(n) :
  flash[b].st = "part" => flash[b].k > Before(n, b)

\* The bad blocks an erase can meet, in front of the copy in use or behind it.
Met == {c \in bad : c >= Target}

Clearing == pc = "erase" =>
  /\ at >= Target /\ done = 0
  /\ end \in Target + EnvRange .. Target + EnvRange + Cardinality(Below(Met, at))
  /\ Roomy /\ valid = 2 => at <= Redund
  /\ \A b \in Good(Spare) : b < at => flash[b] = Erased

Filling == pc = "write" =>
  /\ at \in Target .. Target + EnvRange /\ end = Target + EnvRange
  /\ done = Before(Spare, at)
  /\ \A b \in Good(Spare) :
       flash[b] = IF b < at THEN Part(Before(Spare, b) + 1, env) ELSE Erased
  /\ \A i \in 1 .. done : \E b \in Good(Spare) : b < at /\ Before(Spare, b) = i - 1

\* No save was spoilt, and no erase has gone on into the copy in use.
Sound == ~spoilt /\ Roomy

Known == Sound =>
  /\ pc = "off" => Loads.data \in {acked} \cup tried
  /\ pc # "off" =>
       /\ CopyOk(valid) => Copy(valid).data = acked
       /\ ~CopyOk(valid) => acked = Default
       /\ Choice = Spare => Copy(Spare).data \in tried
  /\ Saving => env.data \in tried

NandInv == Typed /\ Ranked /\ Clearing /\ Filling /\ Known

\* Which copy the next save spares does not depend on the room.
NandSpares == (Saving => tried # {}) /\ SparesChosen

(***************************************************************************)
(* NOR.                                                                    *)
(***************************************************************************)
Fields == Contents \cup {"erased", "torn"}
Flags  == SUBSET FlagBits

NorTyped ==
  /\ copy \in [{1, 2} -> [data : Fields, crc : Fields, flags : Flags]]
  /\ cur \in {1, 2}
  /\ env \in [data : Contents, crc : Contents]
  /\ acked \in Contents /\ tried \subseteq Contents /\ spoilt \in BOOLEAN
  /\ pc \in {"off", "obsolete", "active", "idle", "erase", "data", "crc", "old", "new",
             "rest", "done"}

NorCopy(d, c, f) == [data |-> d, crc |-> c, flags |-> f]

\* Copy n is chosen before copy m, or none is.
Leads(n, m) == 0 \in Nor!Flag(n) /\ Nor!Flag(m) # Nor!Erased

\* What the steps of a save have done; the repairs of a boot are for a whole copy.
NorStage ==
  /\ pc = "data" => copy[Nor!New] = Nor!Blank
  /\ pc = "crc"  => copy[Nor!New] = NorCopy(env.data, "erased", Nor!Erased)
  /\ pc \in {"old", "new"} => copy[Nor!New] = NorCopy(env.data, env.crc, Nor!Erased)
  /\ pc \in {"rest", "done"} => copy[Nor!New] = NorCopy(env.data, env.crc, Nor!Active)
  /\ pc \in {"new", "rest", "done"} => Nor!Flag(cur) = Nor!Obsolete
  /\ pc \in {"obsolete", "active"} => Nor!CopyOk(cur)

\* A repair may fail, but none takes the copy in use for obsolete or the other
\* one for fresh (the last clause of pc # "off").
NorKnown == ~spoilt =>
  /\ pc = "off" /\ ~Nor!Undecided => Nor!Loads \in {acked} \cup tried
  /\ pc # "off" =>
       /\ Nor!CopyOk(cur) => copy[cur].data = acked
       /\ ~Nor!CopyOk(cur) => acked = Default
       /\ Nor!Choice = Nor!New /\ ~Nor!Undecided => copy[Nor!New].data \in tried
       /\ pc \in {"obsolete", "active"} /\ Nor!CopyOk(Nor!New) => Leads(cur, Nor!New)
  /\ Nor!Saving => env.data \in tried

NorInv == NorTyped /\ NorStage /\ NorKnown

IInv == (kind = "nand" /\ NandInv /\ NandSpares) \/ (kind = "nor" /\ NorInv)

(***************************************************************************)
(* NOR: steps.                                                             *)
(***************************************************************************)
LEMMA NorSides ==
  ASSUME NorTyped
  PROVE  /\ Nor!New \in {1, 2} /\ Nor!New # cur
         /\ \/ cur = 1 /\ Nor!New = 2
            \/ cur = 2 /\ Nor!New = 1
         /\ \A n \in {1, 2} : copy[n] \in [data : Fields, crc : Fields, flags : Flags]
BY DEF NorTyped, Nor!New

\* Which copy a boot uses, from the side of the one in use.
LEMMA NorChoice ==
  ASSUME NorTyped
  PROVE  /\ Nor!Choice \in {0, cur, Nor!New}
         /\ Nor!Choice = cur => Nor!CopyOk(cur)
         /\ Nor!Choice = Nor!New => Nor!CopyOk(Nor!New)
         /\ Nor!CopyOk(cur) /\ ~Nor!CopyOk(Nor!New) => Nor!Choice = cur
         /\ ~Nor!CopyOk(cur) /\ Nor!CopyOk(Nor!New) => Nor!Choice = Nor!New
         /\ Nor!Choice = 0 /\ ~Nor!Undecided => ~Nor!CopyOk(cur) /\ ~Nor!CopyOk(Nor!New)
         /\ Nor!Choice = cur /\ ~Nor!Undecided /\ Nor!CopyOk(Nor!New) => Leads(cur, Nor!New)
         /\ Nor!Choice = Nor!New /\ ~Nor!Undecided /\ Nor!CopyOk(cur) => ~Leads(cur, Nor!New)
<1>1. CASE cur = 1 /\ Nor!New = 2
  BY <1>1, FlagAssumption DEF Nor!Choice, Nor!Undecided, Nor!Active, Nor!Obsolete, Nor!Erased, Leads
<1>2. CASE cur = 2 /\ Nor!New = 1
  BY <1>2, FlagAssumption DEF Nor!Choice, Nor!Undecided, Nor!Active, Nor!Obsolete, Nor!Erased, Leads
<1> QED BY <1>1, <1>2, NorSides

\* The same, as a formula that holds of every state.
LEMMA NorChosen ==
  NorTyped =>
    /\ Nor!Choice \in {0, cur, Nor!New}
    /\ Nor!Choice = cur => Nor!CopyOk(cur)
    /\ Nor!Choice = Nor!New => Nor!CopyOk(Nor!New)
    /\ Nor!Choice = 0 /\ ~Nor!Undecided => ~Nor!CopyOk(cur) /\ ~Nor!CopyOk(Nor!New)
    /\ Nor!Choice = Nor!New /\ ~Nor!Undecided /\ Nor!CopyOk(cur) => ~Leads(cur, Nor!New)
BY NorChoice

LEMMA NorLeads ==
  NorTyped =>
    (Nor!Choice = cur /\ ~Nor!Undecided /\ Nor!CopyOk(Nor!New) => Leads(cur, Nor!New))
BY NorChoice

LEMMA NorFound ==
  ASSUME NorTyped, NorStage, NorKnown, ~spoilt, ~Nor!Undecided
  PROVE  Nor!Loads \in {acked} \cup tried
<1>1. CASE pc = "off"
  BY <1>1 DEF NorKnown
<1>2. CASE pc # "off"
  BY <1>2, NorChoice DEF NorKnown, Nor!Loads
<1> QED BY <1>1, <1>2

LEMMA NorInit == Nor!Init => NorInv
<1> SUFFICES ASSUME Nor!Init PROVE NorInv
  OBVIOUS
<1>1. /\ cur = 1 /\ env = [data |-> Default, crc |-> Default] /\ pc = "off" /\ tried = {}
      /\ spoilt = FALSE /\ acked = Nor!Loads
      /\ copy = [n \in {1, 2} |-> Nor!Blank] \/ \E n \in {1, 2}, v, w \in Values :
           copy = [m \in {1, 2} |-> IF m = n THEN Nor!Kept(v, Nor!Active)
                                    ELSE Nor!Kept(w, Nor!Obsolete)]
  BY DEF Nor!Init
<1>2. copy \in [{1, 2} -> [data : Fields, crc : Fields, flags : Flags]]
  BY <1>1, FlagAssumption
     DEF Nor!Blank, Nor!Kept, Fields, Contents, Flags, Nor!Erased, Nor!Active, Nor!Obsolete
<1>3. acked \in Contents
  BY <1>1, <1>2 DEF Nor!Loads, Nor!Choice, Nor!CopyOk, Contents
<1>4. NorTyped
  BY <1>1, <1>2, <1>3 DEF NorTyped, Contents
<1>5. NorStage /\ NorKnown
  BY <1>1 DEF NorStage, NorKnown, Nor!Saving
<1> QED BY <1>4, <1>5 DEF NorInv

LEMMA NorBoot == ASSUME NorInv, Nor!Boot PROVE NorInv'
<1>a. NorTyped /\ NorStage /\ NorKnown /\ pc = "off" /\ copy' = copy
  BY DEF NorInv, Nor!Boot
<1>b. Nor!Loads \in Contents
  BY <1>a, NorSides, NorChoice DEF NorTyped, Nor!Loads, Nor!CopyOk, Contents
<1>c. /\ env' = [data |-> Nor!Loads, crc |-> Nor!Loads]
      /\ spoilt' = (spoilt \/ Nor!Undecided)
      /\ IF spoilt' THEN acked' = acked /\ tried' = tried ELSE acked' = Nor!Loads /\ tried' = {}
      /\ \/ Nor!Choice = 0 /\ cur' = 1 /\ pc' = "idle"
         \/ Nor!Choice # 0 /\ cur' = Nor!Choice /\ pc' = "obsolete"
  BY DEF Nor!Boot, Nor!Go
<1>d. /\ Nor!Choice' = Nor!Choice /\ (\A n \in {1, 2} : Nor!CopyOk(n)' = Nor!CopyOk(n))
      /\ \A n \in {1, 2} : Nor!Flag(n)' = Nor!Flag(n)
  BY <1>a DEF Nor!Choice, Nor!CopyOk, Nor!Flag
<1>1. NorTyped'
  BY <1>a, <1>b, <1>c, NorSides, NorChoice DEF NorTyped
<1>2. NorStage'
  <2>1. Nor!Choice # 0 => Nor!CopyOk(Nor!Choice)
    BY <1>a, NorSides, NorChoice
  <2> QED BY <1>a, <1>c, <1>d, <2>1, NorSides, NorChoice DEF NorStage, Nor!Flag, Nor!CopyOk
<1>3. NorKnown'
  <2> SUFFICES ASSUME ~spoilt' PROVE NorKnown'
    BY DEF NorKnown
  <2>1. ~Nor!Undecided /\ acked' = Nor!Loads
    BY <1>c
  <2>2. CASE Nor!Choice = 0
    <3>1. ~Nor!CopyOk(1) /\ ~Nor!CopyOk(2) /\ acked' = Default
      BY <1>a, <2>1, <2>2, NorSides, NorChoice DEF Nor!Loads
    <3> QED BY <1>a, <1>c, <2>2, <3>1 DEF NorKnown, Nor!CopyOk, Nor!Saving, Nor!Choice, Nor!New
  <2>3. CASE Nor!Choice # 0
    <3>1. /\ cur' = Nor!Choice /\ acked' = copy[cur'].data /\ Nor!CopyOk(cur')
          /\ cur' \in {1, 2} /\ pc' = "obsolete"
      BY <1>a, <1>c, <2>1, <2>3, NorSides, NorChoice DEF Nor!Loads
    <3>2. Nor!Choice' # Nor!New' /\ cur' \in {1, 2} /\ Nor!New' \in {1, 2}
      BY <1>d, <3>1 DEF Nor!New
    <3>3. /\ Nor!Choice' = cur' /\ ~Nor!Undecided'
          /\ Nor!CopyOk(cur)' = Nor!CopyOk(cur') /\ copy'[cur'].data = acked'
      BY <1>a, <1>d, <2>1, <3>1 DEF Nor!Undecided, Nor!CopyOk
    <3>4. Nor!CopyOk(Nor!New)' => Leads(cur, Nor!New)'
      <4>1. (NorTyped =>
               (Nor!Choice = cur /\ ~Nor!Undecided /\ Nor!CopyOk(Nor!New) => Leads(cur, Nor!New)))'
        BY NorLeads, PTL
      <4> QED BY <1>1, <3>3, <4>1
    <3> QED BY <3>1, <3>2, <3>3, <3>4 DEF NorKnown, Nor!Saving
  <2> QED BY <2>2, <2>3
<1> QED BY <1>1, <1>2, <1>3 DEF NorInv

\* A repair that clears bits of the other flag, or bits but the active one of the
\* flag in use, and whatever it leaves or comes next.
LEMMA NorMark ==
  ASSUME NorInv, pc \in {"obsolete", "active"}, pc' \in {"active", "idle", "off"},
         copy' \in [{1, 2} -> [data : Fields, crc : Fields, flags : Flags]],
         \A n \in {1, 2} : copy'[n].data = copy[n].data /\ copy'[n].crc = copy[n].crc,
         copy'[Nor!New].flags \subseteq copy[Nor!New].flags,
         0 \in copy[cur].flags => 0 \in copy'[cur].flags,
         cur' = cur, env' = env, acked' = acked, tried' = tried, spoilt' = spoilt
  PROVE  NorInv'
<1>a. NorTyped /\ NorStage /\ NorKnown /\ Nor!CopyOk(cur)
  BY DEF NorInv, NorStage
<1>b. /\ Nor!New' = Nor!New /\ cur \in {1, 2} /\ Nor!New \in {1, 2}
      /\ \A n \in {1, 2} : Nor!CopyOk(n)' = Nor!CopyOk(n)
  BY <1>a, NorSides DEF Nor!New, Nor!CopyOk
<1>1. NorTyped'
  BY <1>a DEF NorTyped
<1>2. NorStage'
  BY <1>a, <1>b DEF NorStage, Nor!CopyOk
<1>3. NorKnown'
  <2> SUFFICES ASSUME ~spoilt PROVE NorKnown'
    BY DEF NorKnown
  <2>1. copy[cur].data = acked /\ Nor!CopyOk(cur)' /\ copy'[cur'].data = acked'
    BY <1>a, <1>b DEF NorKnown
  <2>2. Nor!CopyOk(Nor!New)' => Leads(cur, Nor!New)'
    <3> SUFFICES ASSUME Nor!CopyOk(Nor!New) PROVE Leads(cur, Nor!New)'
      BY <1>b
    <3>1. 0 \in copy[cur].flags /\ copy[Nor!New].flags # FlagBits
      BY <1>a DEF NorKnown, Leads, Nor!Flag, Nor!Erased
    <3>2. copy[Nor!New].flags \subseteq FlagBits
      BY <1>a, <1>b, NorSides DEF Flags
    <3>3. copy'[Nor!New].flags # FlagBits /\ 0 \in copy'[cur].flags
      BY <3>1, <3>2
    <3> QED BY <1>b, <3>3 DEF Leads, Nor!Flag, Nor!Erased
  <2>3. (/\ Nor!Choice \in {0, cur, Nor!New}
         /\ Nor!Choice = Nor!New => Nor!CopyOk(Nor!New)
         /\ Nor!Choice = 0 /\ ~Nor!Undecided => ~Nor!CopyOk(cur)
         /\ Nor!Choice = Nor!New /\ ~Nor!Undecided /\ Nor!CopyOk(cur) => ~Leads(cur, Nor!New))'
    <3>1. (NorTyped =>
             /\ Nor!Choice \in {0, cur, Nor!New}
             /\ Nor!Choice = cur => Nor!CopyOk(cur)
             /\ Nor!Choice = Nor!New => Nor!CopyOk(Nor!New)
             /\ Nor!Choice = 0 /\ ~Nor!Undecided => ~Nor!CopyOk(cur) /\ ~Nor!CopyOk(Nor!New)
             /\ Nor!Choice = Nor!New /\ ~Nor!Undecided /\ Nor!CopyOk(cur) => ~Leads(cur, Nor!New))'
      BY NorChosen, PTL
    <3> QED BY <1>1, <3>1
  <2>4. ASSUME ~Nor!Undecided' PROVE Nor!Choice' = cur'
    BY <1>b, <2>1, <2>2, <2>3, <2>4
  <2>5. ~Nor!Undecided' => Nor!Loads' = acked'
    BY <1>b, <2>1, <2>4 DEF Nor!Loads
  <2>6. Nor!Choice' = Nor!New' /\ ~Nor!Undecided' => FALSE
    BY <1>a, <1>b, <2>4, NorSides
  <2> QED BY <1>b, <2>1, <2>2, <2>5, <2>6 DEF NorKnown, Nor!Saving
<1> QED BY <1>1, <1>2, <1>3 DEF NorInv

\* What programming a flag can leave, when it is done, fails or is cut.
LEMMA NorProgram ==
  ASSUME NorTyped, NEW n \in {1, 2}, NEW f,
         copy' = Nor!Program(n, f) \/ copy' \in Nor!Torn(n, f)
  PROVE  /\ copy' \in [{1, 2} -> [data : Fields, crc : Fields, flags : Flags]]
         /\ \A m \in {1, 2} : copy'[m].data = copy[m].data /\ copy'[m].crc = copy[m].crc
         /\ \A m \in {1, 2} : m # n => copy'[m] = copy[m]
         /\ copy'[n].flags \subseteq copy[n].flags /\ copy[n].flags \cap f \subseteq copy'[n].flags
<1>1. PICK g \in SUBSET copy[n].flags :
        copy' = [copy EXCEPT ![n].flags = g] /\ copy[n].flags \cap f \subseteq g
  <2>1. CASE copy' = Nor!Program(n, f)
    <3>1. /\ copy[n].flags \cap f \in SUBSET copy[n].flags
          /\ copy' = [copy EXCEPT ![n].flags = copy[n].flags \cap f]
      BY <2>1 DEF Nor!Program
    <3> QED BY <3>1
  <2>2. CASE copy' \in Nor!Torn(n, f)
    BY <2>2 DEF Nor!Torn, Nor!Flag
  <2> QED BY <2>1, <2>2
<1>2. copy \in [{1, 2} -> [data : Fields, crc : Fields, flags : SUBSET FlagBits]]
  BY DEF NorTyped, Flags
<1> QED BY <1>1, <1>2 DEF Flags

LEMMA NorProgrammed ==
  ASSUME NorTyped, \/ copy' = copy
                   \/ copy' = Nor!Program(Nor!New, {}) \/ copy' \in Nor!Torn(Nor!New, {})
                   \/ copy' = Nor!Program(cur, {0}) \/ copy' \in Nor!Torn(cur, {0})
  PROVE  /\ copy' \in [{1, 2} -> [data : Fields, crc : Fields, flags : Flags]]
         /\ \A n \in {1, 2} : copy'[n].data = copy[n].data /\ copy'[n].crc = copy[n].crc
         /\ copy'[Nor!New].flags \subseteq copy[Nor!New].flags
         /\ 0 \in copy[cur].flags => 0 \in copy'[cur].flags
<1>a. /\ cur \in {1, 2} /\ Nor!New \in {1, 2} /\ Nor!New # cur
      /\ copy \in [{1, 2} -> [data : Fields, crc : Fields, flags : Flags]]
  BY NorSides DEF NorTyped
<1>1. CASE copy' = copy
  BY <1>a, <1>1
<1>2. CASE copy' = Nor!Program(Nor!New, {}) \/ copy' \in Nor!Torn(Nor!New, {})
  BY <1>a, <1>2, NorProgram
<1>3. CASE copy' = Nor!Program(cur, {0}) \/ copy' \in Nor!Torn(cur, {0})
  BY <1>a, <1>3, NorProgram
<1> QED BY <1>1, <1>2, <1>3

LEMMA NorRepair ==
  ASSUME NorInv, Nor!RepairObsolete \/ Nor!RepairActive
  PROVE  NorInv'
<1>a. /\ NorTyped /\ cur' = cur /\ env' = env
      /\ acked' = acked /\ tried' = tried /\ spoilt' = spoilt
      /\ pc \in {"obsolete", "active"} /\ pc' \in {"active", "idle", "off"}
      /\ copy \in [{1, 2} -> [data : Fields, crc : Fields, flags : Flags]]
      /\ \/ copy' = copy
         \/ copy' = Nor!Program(Nor!New, {}) \/ copy' \in Nor!Torn(Nor!New, {})
         \/ copy' = Nor!Program(cur, {0}) \/ copy' \in Nor!Torn(cur, {0})
  BY DEF NorInv, NorTyped, Nor!RepairObsolete, Nor!RepairActive, Nor!Repair, Nor!hist, Nor!Go,
         Nor!Obsolete, Nor!Active
<1> QED BY <1>a, NorProgrammed, NorMark

\* Nothing but the program counter moves, or the user changes what is in RAM.
LEMMA NorSame ==
  ASSUME NorInv, copy' = copy, cur' = cur, acked' = acked, tried' = tried, spoilt' = spoilt,
         pc # "off", pc' \notin {"obsolete", "active"}, Nor!Saving' => env'.data \in tried
  PROVE  NorKnown'
<1>a. NorTyped /\ NorStage /\ NorKnown
  BY DEF NorInv
<1>b. /\ Nor!Choice' = Nor!Choice /\ Nor!Loads' = Nor!Loads /\ Nor!Undecided' = Nor!Undecided
      /\ Nor!New' = Nor!New /\ Nor!CopyOk(cur)' = Nor!CopyOk(cur)
  BY DEF Nor!Loads, Nor!Undecided, Nor!Choice, Nor!CopyOk, Nor!Flag, Nor!New
<1>1. ~spoilt /\ ~Nor!Undecided => Nor!Loads \in {acked} \cup tried
  BY <1>a, NorFound
<1> QED BY <1>a, <1>b, <1>1 DEF NorKnown

\* A step of a save changes nothing in the copy in use but its flag, and
\* leaves in the other one at most what is being saved.
LEMMA NorTouch ==
  ASSUME NorInv, NorTyped', Nor!Saving, cur' = cur, env' = env, acked' = acked, tried' = tried,
         spoilt' = spoilt, pc' \notin {"obsolete", "active"},
         copy'[cur].data = copy[cur].data, copy'[cur].crc = copy[cur].crc,
         copy'[Nor!New].data \in Contents /\ copy'[Nor!New].crc = copy'[Nor!New].data
           => copy'[Nor!New].data = env.data
  PROVE  NorKnown'
<1>a. NorTyped /\ NorStage /\ NorKnown /\ pc # "off"
  BY DEF NorInv, Nor!Saving
<1>b. Nor!New' = Nor!New /\ Nor!CopyOk(cur)' = Nor!CopyOk(cur)
  BY <1>a DEF Nor!New, Nor!CopyOk
<1>1. Nor!CopyOk(Nor!New)' => copy'[Nor!New].data = env.data
  BY <1>b DEF Nor!CopyOk, Contents
<1>2. /\ Nor!Choice' \in {0, cur, Nor!New}
      /\ Nor!Choice' = cur => Nor!CopyOk(cur)'
      /\ Nor!Choice' = Nor!New => Nor!CopyOk(Nor!New)'
      /\ Nor!Choice' = 0 /\ ~Nor!Undecided' => ~Nor!CopyOk(cur)'
  <2>1. (/\ Nor!Choice \in {0, cur, Nor!New}
         /\ Nor!Choice = cur => Nor!CopyOk(cur)
         /\ Nor!Choice = Nor!New => Nor!CopyOk(Nor!New)
         /\ Nor!Choice = 0 /\ ~Nor!Undecided => ~Nor!CopyOk(cur) /\ ~Nor!CopyOk(Nor!New))'
    BY NorChosen, PTL
  <2> QED BY <1>b, <2>1
<1> SUFFICES ASSUME ~spoilt PROVE NorKnown'
  BY DEF NorKnown
<1>3. /\ Nor!CopyOk(cur) => copy[cur].data = acked
      /\ ~Nor!CopyOk(cur) => acked = Default
      /\ env.data \in tried
  BY <1>a DEF NorKnown
<1>4. Nor!Choice' = Nor!New' => copy'[Nor!New'].data \in tried'
  BY <1>b, <1>1, <1>2, <1>3
<1>5. ASSUME ~Nor!Undecided' PROVE Nor!Loads' \in {acked'} \cup tried'
  <2>1. CASE Nor!Choice' = 0
    BY <1>b, <1>2, <1>3, <1>5, <2>1 DEF Nor!Loads
  <2>2. CASE Nor!Choice' = cur
    <3>1. Nor!Loads' = copy'[cur].data
      BY <1>a, <2>2 DEF Nor!Loads, NorTyped
    <3> QED BY <1>b, <1>2, <1>3, <2>2, <3>1
  <2>3. CASE Nor!Choice' = Nor!New
    <3>1. Nor!Loads' = copy'[Nor!New].data
      BY <1>a, <2>3, NorSides DEF Nor!Loads
    <3> QED BY <1>1, <1>2, <1>3, <2>3, <3>1
  <2> QED BY <1>2, <2>1, <2>2, <2>3
<1> QED BY <1>b, <1>3, <1>4, <1>5 DEF NorKnown

LEMMA NorAfter ==
  /\ Nor!After("erase") = "data" /\ Nor!After("data") = "crc" /\ Nor!After("crc") = "old"
  /\ Nor!After("old") = "new" /\ Nor!After("new") = "rest" /\ Nor!After("rest") = "done"
<1>1. /\ Nor!Writes[1] = "erase" /\ Nor!Writes[2] = "data" /\ Nor!Writes[3] = "crc"
      /\ Nor!Writes[4] = "old" /\ Nor!Writes[5] = "new" /\ Nor!Writes[6] = "rest"
  BY DEF Nor!Writes
<1>2. /\ (CHOOSE i \in 1 .. 6 : Nor!Writes[i] = "erase") = 1
      /\ (CHOOSE i \in 1 .. 6 : Nor!Writes[i] = "data") = 2
      /\ (CHOOSE i \in 1 .. 6 : Nor!Writes[i] = "crc") = 3
      /\ (CHOOSE i \in 1 .. 6 : Nor!Writes[i] = "old") = 4
      /\ (CHOOSE i \in 1 .. 6 : Nor!Writes[i] = "new") = 5
      /\ (CHOOSE i \in 1 .. 6 : Nor!Writes[i] = "rest") = 6
  <2>1. \A i \in 1 .. 6 : i \in {1, 2, 3, 4, 5, 6}
    OBVIOUS
  <2> QED BY <1>1, <2>1
<1> QED BY <1>1, <1>2 DEF Nor!After

LEMMA NorWrite == ASSUME NorInv, Nor!Write PROVE NorInv'
<1>a. /\ NorTyped /\ NorStage /\ NorKnown /\ Nor!Saving /\ pc # "done"
      /\ copy' = Nor!Written(pc) /\ pc' = Nor!After(pc) /\ cur' = cur /\ env' = env
      /\ acked' = acked /\ tried' = tried /\ spoilt' = spoilt /\ Nor!New' = Nor!New
  BY DEF NorInv, Nor!Write, Nor!Go, Nor!hist, Nor!New
<1>b. /\ cur \in {1, 2} /\ Nor!New \in {1, 2} /\ Nor!New # cur
      /\ copy \in [{1, 2} -> [data : Fields, crc : Fields, flags : Flags]]
      /\ env.data \in Contents /\ env.crc \in Contents
      /\ Contents \subseteq Fields /\ "erased" \in Fields \ Contents /\ "torn" \in Fields \ Contents
      /\ \/ cur = 1 /\ Nor!New = 2
         \/ cur = 2 /\ Nor!New = 1
  BY <1>a, NorSides, MarkAssumption DEF NorTyped, Fields, Contents
<1>c. /\ Nor!Erased \in Flags /\ Nor!Active \in Flags /\ Nor!Obsolete \in Flags
      /\ Nor!Erased \cap Nor!Active = Nor!Active /\ \A f : f \cap Nor!Obsolete = Nor!Obsolete
  BY FlagAssumption DEF Flags, Nor!Erased, Nor!Active, Nor!Obsolete
<1>1. /\ copy' \in [{1, 2} -> [data : Fields, crc : Fields, flags : Flags]]
      /\ copy'[cur].data = copy[cur].data /\ copy'[cur].crc = copy[cur].crc
      /\ copy'[cur].flags = IF pc = "old" THEN Nor!Obsolete ELSE copy[cur].flags
      /\ copy'[Nor!New] = CASE pc = "erase" -> Nor!Blank
                            [] pc = "data" -> NorCopy(env.data, "erased", Nor!Erased)
                            [] pc \in {"crc", "old"} -> NorCopy(env.data, env.crc, Nor!Erased)
                            [] OTHER -> NorCopy(env.data, env.crc, Nor!Active)
  <2>1. CASE pc = "erase"
    BY <1>a, <1>b, <1>c, <2>1 DEF Nor!Written, Nor!Blank
  <2>2. CASE pc = "data"
    BY <1>a, <1>b, <1>c, <2>2 DEF Nor!Written, Nor!Blank, NorStage, NorCopy
  <2>3. CASE pc = "crc"
    BY <1>a, <1>b, <1>c, <2>3 DEF Nor!Written, NorStage, NorCopy
  <2>4. CASE pc = "old"
    BY <1>a, <1>b, <1>c, <2>4 DEF Nor!Written, Nor!Program, NorStage, NorCopy
  <2>5. CASE pc = "new"
    <3>1. copy[Nor!New] = NorCopy(env.data, env.crc, Nor!Erased)
      BY <1>a, <2>5 DEF NorStage
    <3>2. copy' = [copy EXCEPT ![Nor!New].flags = copy[Nor!New].flags \cap Nor!Active]
      BY <1>a, <2>5 DEF Nor!Written, Nor!Program
    <3> QED BY <1>b, <1>c, <2>5, <3>1, <3>2 DEF NorCopy
  <2>6. CASE pc = "rest"
    BY <1>a, <1>b, <1>c, <2>6 DEF Nor!Written, NorStage, NorCopy
  <2> QED BY <1>a, <2>1, <2>2, <2>3, <2>4, <2>5, <2>6 DEF Nor!Saving
<1>2. pc' = CASE pc = "erase" -> "data" [] pc = "data" -> "crc" [] pc = "crc" -> "old"
              [] pc = "old" -> "new" [] pc = "new" -> "rest" [] OTHER -> "done"
  BY <1>a, NorAfter DEF Nor!Saving
<1>3. NorTyped'
  BY <1>a, <1>1, <1>2 DEF NorTyped
<1>4. NorStage'
  BY <1>a, <1>b, <1>1, <1>2 DEF NorStage, Nor!Flag, Nor!Saving
<1>5. NorKnown'
  BY <1>a, <1>b, <1>1, <1>2, <1>3, NorTouch DEF NorInv, Nor!Blank, NorCopy
<1> QED BY <1>3, <1>4, <1>5 DEF NorInv

\* What a write leaves that fails or is cut, whatever happens next.
LEMMA NorPartly ==
  ASSUME NorInv, Nor!Saving, pc # "done", copy' \in Nor!Partly(pc), pc' \in {"off", "idle"},
         cur' = cur, env' = env
  PROVE  /\ copy' \in [{1, 2} -> [data : Fields, crc : Fields, flags : Flags]]
         /\ NorStage'
         /\ acked' = acked /\ tried' = tried /\ spoilt' = spoilt => NorKnown'
<1>a. /\ NorTyped /\ NorStage /\ NorKnown /\ Nor!New' = Nor!New
  BY DEF NorInv, Nor!New
<1>b. /\ cur \in {1, 2} /\ Nor!New \in {1, 2} /\ Nor!New # cur
      /\ copy \in [{1, 2} -> [data : Fields, crc : Fields, flags : Flags]]
      /\ env.data \in Contents /\ env.crc \in Contents
      /\ Contents \subseteq Fields /\ "erased" \in Fields \ Contents /\ "torn" \in Fields \ Contents
      /\ \/ cur = 1 /\ Nor!New = 2
         \/ cur = 2 /\ Nor!New = 1
  BY <1>a, NorSides, MarkAssumption DEF NorTyped, Fields, Contents
<1>c. Nor!Erased \in Flags
  BY DEF Flags, Nor!Erased
<1>1. CASE copy' = copy
  <2>1. NorStage'
    BY DEF NorStage
  <2>2. acked' = acked /\ tried' = tried /\ spoilt' = spoilt => NorKnown'
    BY <1>1, NorSame DEF Nor!Saving
  <2> QED BY <1>b, <1>1, <2>1, <2>2
<1>2. CASE copy' # copy
  <2>1. /\ copy' \in [{1, 2} -> [data : Fields, crc : Fields, flags : Flags]]
        /\ copy'[cur].data = copy[cur].data /\ copy'[cur].crc = copy[cur].crc
        /\ copy'[Nor!New].data \in Contents /\ copy'[Nor!New].crc = copy'[Nor!New].data
             => copy'[Nor!New].data = env.data
    <3>1. CASE pc = "erase"
      BY <1>b, <1>c, <1>2, <3>1 DEF Nor!Partly, Nor!Blank
    <3>2. CASE pc = "data"
      BY <1>a, <1>b, <1>c, <1>2, <3>2 DEF Nor!Partly, NorStage, Nor!Blank
    <3>3. CASE pc = "crc"
      BY <1>a, <1>b, <1>c, <1>2, <3>3 DEF Nor!Partly, NorStage, NorCopy
    <3>4. CASE pc \in {"old", "new"}
      <4>1. copy' \in Nor!Torn(cur, Nor!Obsolete) \/ copy' \in Nor!Torn(Nor!New, Nor!Active)
        BY <1>2, <3>4 DEF Nor!Partly
      <4>2. /\ copy' \in [{1, 2} -> [data : Fields, crc : Fields, flags : Flags]]
            /\ \A n \in {1, 2} : copy'[n].data = copy[n].data /\ copy'[n].crc = copy[n].crc
        BY <1>a, <1>b, <4>1, NorProgram
      <4>3. copy[Nor!New].data = env.data
        BY <1>a, <3>4 DEF NorStage, NorCopy
      <4> QED BY <1>b, <4>2, <4>3
    <3>5. CASE pc = "rest"
      BY <1>2, <3>5 DEF Nor!Partly
    <3> QED BY <3>1, <3>2, <3>3, <3>4, <3>5 DEF Nor!Saving
  <2>2. NorStage'
    BY DEF NorStage
  <2>3. ASSUME acked' = acked, tried' = tried, spoilt' = spoilt PROVE NorKnown'
    <3>1. NorTyped'
      BY <1>a, <2>1, <2>3 DEF NorTyped
    <3> QED BY <2>1, <2>3, <3>1, NorTouch
  <2> QED BY <2>1, <2>2, <2>3
<1> QED BY <1>1, <1>2

LEMMA NorUser ==
  ASSUME NorInv, NEW v \in Values, Nor!SetEnv(v) \/ Nor!SetTooLong(v)
  PROVE  NorInv'
<1>a. /\ NorTyped /\ NorStage /\ NorKnown /\ pc = "idle" /\ pc' = pc /\ copy' = copy
      /\ cur' = cur /\ acked' = acked /\ tried' = tried /\ spoilt' = spoilt
      /\ env' \in [data : Contents, crc : Contents]
  BY DEF NorInv, NorTyped, Contents, Nor!SetEnv, Nor!SetTooLong, Nor!hist
<1>1. NorTyped'
  BY <1>a DEF NorTyped
<1>2. NorStage'
  BY <1>a DEF NorStage, Nor!Flag
<1>3. NorKnown'
  BY <1>a, NorSame DEF Nor!Saving
<1> QED BY <1>1, <1>2, <1>3 DEF NorInv

LEMMA NorSaveEnv == ASSUME NorInv, Nor!SaveEnv PROVE NorInv'
<1>a. /\ NorTyped /\ NorStage /\ NorKnown /\ pc = "idle" /\ pc' = "erase" /\ copy' = copy
      /\ cur' = cur /\ acked' = acked /\ tried' = tried \cup {env.data} /\ spoilt' = spoilt
      /\ env' = env
  BY DEF NorInv, Nor!SaveEnv, Nor!Go
<1>b. env.data \in Contents
  BY <1>a DEF NorTyped
<1>1. NorTyped'
  BY <1>a, <1>b DEF NorTyped
<1>2. NorStage'
  BY <1>a DEF NorStage, Nor!Flag
<1>3. /\ Nor!Choice' = Nor!Choice /\ Nor!New' = Nor!New /\ Nor!CopyOk(cur)' = Nor!CopyOk(cur)
  BY <1>a DEF Nor!Choice, Nor!CopyOk, Nor!Flag, Nor!New
<1>4. NorKnown'
  <2>1. Nor!Undecided' = Nor!Undecided
    BY <1>a DEF Nor!Undecided, Nor!Choice, Nor!CopyOk, Nor!Flag
  <2> QED BY <1>a, <1>3, <2>1 DEF NorKnown
<1> QED BY <1>1, <1>2, <1>4 DEF NorInv

LEMMA NorWriteFail == ASSUME NorInv, Nor!WriteFail PROVE NorInv'
<1>a. /\ NorTyped /\ Nor!Saving /\ pc # "done" /\ copy' \in Nor!Partly(pc) /\ pc' = "idle"
      /\ cur' = cur /\ env' = env
      /\ IF pc = "rest" THEN acked' = env.data /\ tried' = {} /\ spoilt' = TRUE
         ELSE acked' = acked /\ tried' = tried /\ spoilt' = spoilt
  BY DEF NorInv, Nor!WriteFail, Nor!Go, Nor!hist
<1>1. /\ copy' \in [{1, 2} -> [data : Fields, crc : Fields, flags : Flags]]
      /\ NorStage'
      /\ acked' = acked /\ tried' = tried /\ spoilt' = spoilt => NorKnown'
  BY <1>a, NorPartly
<1>2. NorTyped'
  BY <1>a, <1>1 DEF NorTyped
<1>3. NorKnown'
  BY <1>a, <1>1 DEF NorKnown
<1> QED BY <1>1, <1>2, <1>3 DEF NorInv

LEMMA NorSaveDone == ASSUME NorInv, Nor!SaveDone PROVE NorInv'
<1>a. /\ NorTyped /\ NorStage /\ NorKnown /\ pc = "done" /\ pc' = "idle" /\ cur' = Nor!New
      /\ copy' = copy /\ env' = env
      /\ acked' = env.data /\ tried' = {} /\ spoilt' = (env.data # env.crc)
  BY DEF NorInv, Nor!SaveDone, Nor!Go
<1>b. /\ copy[Nor!New] = NorCopy(env.data, env.crc, Nor!Active) /\ copy[cur].flags = Nor!Obsolete
      /\ env.data \in Contents
      /\ \/ cur = 1 /\ Nor!New = 2 /\ cur' = 2 /\ Nor!New' = 1
         \/ cur = 2 /\ Nor!New = 1 /\ cur' = 1 /\ Nor!New' = 2
  BY <1>a, NorSides DEF NorStage, NorTyped, Nor!Flag, Nor!New
<1>1. NorTyped'
  BY <1>a, <1>b DEF NorTyped
<1>2. NorStage'
  BY <1>a DEF NorStage, Nor!Flag
<1>3. ASSUME env.data = env.crc
      PROVE  Nor!CopyOk(cur') /\ Nor!Choice = cur' /\ copy[cur'].data = env.data
  <2>1. Nor!CopyOk(Nor!New) /\ copy[Nor!New].flags = Nor!Active
    BY <1>b, <1>3 DEF Nor!CopyOk, NorCopy, Contents
  <2>2. Nor!Choice = Nor!New
    <3>1. CASE cur = 1 /\ Nor!New = 2
      BY <1>b, <2>1, <3>1, FlagAssumption DEF Nor!Choice, Nor!Flag, Nor!Active, Nor!Obsolete, Nor!Erased
    <3>2. CASE cur = 2 /\ Nor!New = 1
      BY <1>b, <2>1, <3>2, FlagAssumption DEF Nor!Choice, Nor!Flag, Nor!Active, Nor!Obsolete, Nor!Erased
    <3> QED BY <1>b, <3>1, <3>2
  <2> QED BY <1>a, <1>b, <2>1, <2>2 DEF NorCopy
<1>4. NorKnown'
  <2>1. /\ Nor!Choice' = Nor!Choice /\ (\A n \in {1, 2} : Nor!CopyOk(n)' = Nor!CopyOk(n))
    BY <1>a DEF Nor!Choice, Nor!CopyOk, Nor!Flag
  <2> SUFFICES ASSUME env.data = env.crc PROVE NorKnown'
    BY <1>a DEF NorKnown
  <2>2. /\ Nor!CopyOk(cur') /\ Nor!Choice = cur' /\ copy[cur'].data = env.data
        /\ cur' # Nor!New' /\ pc' = "idle"
    BY <1>a, <1>b, <1>3
  <2>3. copy'[cur'].data = acked' /\ Nor!Choice' # Nor!New'
    BY <1>a, <2>1, <2>2
  <2>4. Nor!CopyOk(cur)'
    BY <1>a, <2>2 DEF Nor!CopyOk
  <2> QED BY <2>2, <2>3, <2>4 DEF NorKnown, Nor!Saving
<1> QED BY <1>1, <1>2, <1>4 DEF NorInv

LEMMA NorCut == ASSUME NorInv, Nor!Cut PROVE NorInv'
<1>a. /\ NorTyped /\ NorStage /\ pc # "off" /\ pc' = "off" /\ copy' \in Nor!Partly(pc)
      /\ cur' = cur /\ env' = env /\ acked' = acked /\ tried' = tried /\ spoilt' = spoilt
  BY DEF NorInv, Nor!Cut, Nor!Go, Nor!hist
<1>1. CASE Nor!Saving /\ pc # "done"
  <2>1. /\ copy' \in [{1, 2} -> [data : Fields, crc : Fields, flags : Flags]]
        /\ NorStage' /\ NorKnown'
    BY <1>a, <1>1, NorPartly
  <2> QED BY <1>a, <2>1 DEF NorInv, NorTyped
<1>2. CASE pc \in {"obsolete", "active"}
  <2>1. \/ copy' = copy
        \/ copy' \in Nor!Torn(Nor!New, {})
        \/ copy' \in Nor!Torn(cur, {0})
    BY <1>a, <1>2 DEF Nor!Partly, Nor!Obsolete, Nor!Active
  <2> QED BY <1>a, <1>2, <2>1, NorProgrammed, NorMark
<1>3. CASE pc \in {"idle", "done"}
  <2>1. copy' = copy
    BY <1>a, <1>3 DEF Nor!Partly
  <2>2. NorTyped' /\ NorStage'
    BY <1>a, <2>1 DEF NorTyped, NorStage
  <2>3. NorKnown'
    BY <1>a, <2>1, NorSame DEF Nor!Saving
  <2> QED BY <2>2, <2>3 DEF NorInv
<1> QED BY <1>a, <1>1, <1>2, <1>3 DEF NorTyped, Nor!Saving

LEMMA NorStill == NorInv /\ UNCHANGED <<nor, env, pc, hist>> => NorInv'
<1> SUFFICES ASSUME NorInv, UNCHANGED <<nor, env, pc, hist>> PROVE NorInv'
  OBVIOUS
<1>a. /\ NorTyped /\ NorStage /\ NorKnown /\ copy' = copy /\ cur' = cur /\ env' = env /\ pc' = pc
      /\ acked' = acked /\ tried' = tried /\ spoilt' = spoilt
  BY DEF NorInv, nor, hist
<1>1. /\ Nor!Choice' = Nor!Choice /\ Nor!Loads' = Nor!Loads /\ Nor!Undecided' = Nor!Undecided
      /\ Nor!New' = Nor!New /\ \A n \in {1, 2} : Nor!CopyOk(n)' = Nor!CopyOk(n)
  BY <1>a DEF Nor!Loads, Nor!Undecided, Nor!Choice, Nor!CopyOk, Nor!Flag, Nor!New
<1>2. NorTyped' /\ NorStage'
  BY <1>a, <1>1, NorSides DEF NorTyped, NorStage, Nor!Flag
<1>3. NorKnown'
  BY <1>a, <1>1, NorSides DEF NorKnown, Nor!Saving, NorTyped, Leads, Nor!Flag
<1> QED BY <1>2, <1>3 DEF NorInv

LEMMA NorStep == ASSUME NorInv, Nor!Next PROVE NorInv'
<1>1. CASE Nor!Boot
  BY <1>1, NorBoot
<1>2. ASSUME NEW v \in Values, Nor!SetEnv(v) \/ Nor!SetTooLong(v) PROVE NorInv'
  BY <1>2, NorUser
<1>3. CASE Nor!SaveEnv
  BY <1>3, NorSaveEnv
<1>4. CASE Nor!RepairObsolete \/ Nor!RepairActive
  BY <1>4, NorRepair
<1>5. CASE Nor!Write
  BY <1>5, NorWrite
<1>6. CASE Nor!WriteFail
  BY <1>6, NorWriteFail
<1>7. CASE Nor!SaveDone
  BY <1>7, NorSaveDone
<1>8. CASE Nor!Cut
  BY <1>8, NorCut
<1> QED BY <1>1, <1>2, <1>3, <1>4, <1>5, <1>6, <1>7, <1>8 DEF Nor!Next, Nor!Step

\* What the runs check of it follows.
LEMMA NorPromises ==
  ASSUME NorInv
  PROVE  Nor!SavedIsFound /\ Nor!BackupWhole /\ Nor!SparesChosen /\ Nor!TypeOK
<1>a. NorTyped /\ NorStage /\ NorKnown
  BY DEF NorInv
<1>1. Nor!SavedIsFound
  BY <1>a, NorFound DEF Nor!SavedIsFound
<1>2. Nor!BackupWhole
  BY <1>a DEF Nor!BackupWhole, Nor!Saving, NorKnown
<1>3. Nor!SparesChosen
  BY <1>a, NorChoice DEF Nor!SparesChosen, NorKnown
<1>4. Nor!TypeOK
  BY <1>a, NorSides DEF Nor!TypeOK, NorTyped, Nor!Flag, Flags, Contents
<1> QED BY <1>1, <1>2, <1>3, <1>4

(***************************************************************************)
(* NAND: how many of a set of blocks come before a block.                  *)
(***************************************************************************)
LEMMA BelowFinite ==
  ASSUME NEW G, IsFiniteSet(G), NEW b
  PROVE  /\ IsFiniteSet(Below(G, b)) /\ Cardinality(Below(G, b)) \in Nat
         /\ Cardinality(Below(G, b)) <= Cardinality(G)
BY FS_Subset, FS_CardinalityType DEF Below

LEMMA BelowGrows ==
  ASSUME NEW G, IsFiniteSet(G), NEW H \in SUBSET G, NEW b \in Int, NEW c \in Int, b <= c,
         G \subseteq Int
  PROVE  Cardinality(Below(H, b)) <= Cardinality(Below(G, c))
<1>1. ASSUME NEW x \in Below(H, b) PROVE x \in Below(G, c)
  <2>1. x \in Int /\ x \in G /\ x < b
    BY DEF Below
  <2>2. x < c
    BY <2>1
  <2> QED BY <2>1, <2>2 DEF Below
<1>2. Below(H, b) \in SUBSET Below(G, c)
  BY <1>1
<1> QED BY <1>2, BelowFinite, FS_Subset

LEMMA BelowStep ==
  ASSUME NEW G, IsFiniteSet(G), G \subseteq Int, NEW b \in Int
  PROVE  Cardinality(Below(G, b + 1)) = Cardinality(Below(G, b)) + (IF b \in G THEN 1 ELSE 0)
<1>a. \A x \in G : x < b + 1 <=> x < b \/ x = b
  <2>1. \A x \in Int : x < b + 1 <=> x < b \/ x = b
    OBVIOUS
  <2> QED BY <2>1
<1>1. CASE b \in G
  <2>1. Below(G, b + 1) = Below(G, b) \cup {b}
    BY <1>a, <1>1, Zenon DEF Below
  <2>3. b \notin Below(G, b)
    BY DEF Below
  <2>2. Cardinality(Below(G, b) \cup {b}) = Cardinality(Below(G, b)) + 1
    BY <2>3, BelowFinite, FS_AddElement
  <2> QED BY <1>1, <2>1, <2>2
<1>2. CASE b \notin G
  <2>1. Below(G, b + 1) = Below(G, b)
    BY <1>a, <1>2, Zenon DEF Below
  <2> QED BY <1>2, <2>1, BelowFinite
<1> QED BY <1>1, <1>2

LEMMA BelowLess ==
  ASSUME NEW G, IsFiniteSet(G), G \subseteq Int, NEW b \in G, NEW c \in Int, b < c
  PROVE  Cardinality(Below(G, b)) < Cardinality(Below(G, c))
<1>1. Cardinality(Below(G, b + 1)) = Cardinality(Below(G, b)) + 1
  BY BelowStep
<1>2. b \in Int
  OBVIOUS
<1>3. b + 1 \in Int /\ b + 1 <= c /\ G \in SUBSET G
  BY <1>2
<1>4. Cardinality(Below(G, b + 1)) <= Cardinality(Below(G, c))
  BY <1>3, BelowGrows
<1> QED BY <1>1, <1>4, BelowFinite

LEMMA Layout ==
  /\ Offset \in Nat /\ Redund \in Nat /\ EnvRange \in Nat /\ NumBlocks \in Nat
  /\ Size \in Nat /\ Size >= 1 /\ Size <= EnvRange
  /\ Redund >= Offset + EnvRange /\ NumBlocks >= Redund + EnvRange
<1>1. EnvRange \in Nat /\ Size \in 1 .. EnvRange
  BY EnvNandAssumption
<1>2. Size \in Nat /\ Size >= 1 /\ Size <= EnvRange
  BY <1>1
<1> QED BY <1>2, EnvNandAssumption

LEMMA GoodFinite ==
  ASSUME Typed, NEW n \in {1, 2}
  PROVE  /\ IsFiniteSet(Good(n)) /\ Good(n) \subseteq Blocks /\ Blocks \subseteq Int
         /\ Area(n) \in Nat /\ Area(n) + EnvRange <= NumBlocks
         /\ \A b : b \in Good(n) => /\ b \in Int /\ b >= Area(n) /\ b < Area(n) + EnvRange
                                    /\ b \notin bad
<1>1. Area(n) \in Nat /\ Area(n) + EnvRange <= NumBlocks /\ EnvRange \in Nat /\ NumBlocks \in Nat
  <2>1. Area(n) = Offset \/ Area(n) = Redund
    BY DEF Area
  <2> QED BY <2>1, Layout
<1>2. IsFiniteSet(Area(n) .. Area(n) + EnvRange - 1)
  BY <1>1, FS_Interval
<1>3. Good(n) \in SUBSET (Area(n) .. Area(n) + EnvRange - 1)
  BY DEF Good
<1>4. IsFiniteSet(Good(n))
  BY <1>2, <1>3, FS_Subset
<1>5. ASSUME NEW b \in Good(n)
      PROVE  b \in Int /\ b >= Area(n) /\ b < Area(n) + EnvRange /\ b \notin bad /\ b \in Blocks
  <2>1. b \in Area(n) .. Area(n) + EnvRange - 1 /\ b \notin bad
    BY DEF Good
  <2> QED BY <1>1, <2>1 DEF Blocks
<1> QED BY <1>1, <1>4, <1>5 DEF Blocks

LEMMA BeforeBelow == \A n, b : Before(n, b) = Cardinality(Below(Good(n), b))
BY DEF Before, Below

LEMMA BeforeNat ==
  ASSUME Typed, NEW n \in {1, 2}, NEW b
  PROVE  Before(n, b) \in Nat
BY GoodFinite, BeforeBelow, BelowFinite

LEMMA BeforeLess ==
  ASSUME Typed, NEW n \in {1, 2}, NEW b \in Good(n), NEW c \in Int, b < c
  PROVE  Before(n, b) < Before(n, c)
<1>1. IsFiniteSet(Good(n)) /\ Good(n) \subseteq Int
  BY GoodFinite
<1> QED BY <1>1, BeforeBelow, BelowLess

LEMMA BeforeUnique ==
  ASSUME Typed, NEW n \in {1, 2}, NEW b \in Good(n), NEW c \in Good(n), Before(n, b) = Before(n, c)
  PROVE  b = c
<1>1. b \in Int /\ c \in Int
  BY GoodFinite
<1>2. ~(b < c) /\ ~(c < b)
  BY <1>1, BeforeLess, BeforeNat
<1> QED BY <1>1, <1>2

LEMMA BeforeStep ==
  ASSUME Typed, NEW n \in {1, 2}, NEW b \in Int
  PROVE  Before(n, b + 1) = Before(n, b) + (IF b \in Good(n) THEN 1 ELSE 0)
<1>1. IsFiniteSet(Good(n)) /\ Good(n) \subseteq Int
  BY GoodFinite
<1> QED BY <1>1, BeforeBelow, BelowStep

LEMMA BeforeFirst ==
  ASSUME Typed, NEW n \in {1, 2}
  PROVE  Before(n, Area(n)) = 0
<1>1. Below(Good(n), Area(n)) = {}
  BY GoodFinite DEF Below
<1> QED BY <1>1, BeforeBelow, FS_EmptySet

(***************************************************************************)
(* NAND: the two copies.                                                   *)
(***************************************************************************)
LEMMA Sides ==
  ASSUME Typed
  PROVE  /\ valid \in {1, 2} /\ Spare \in {1, 2} /\ Spare # valid
         /\ \/ valid = 1 /\ Spare = 2
            \/ valid = 2 /\ Spare = 1
         /\ Target = Area(Spare) /\ \A b \in Good(1) : b \notin Good(2)
<1>1. valid \in {1, 2}
  BY DEF Typed, TypeOK
<1>2. ASSUME NEW b \in Good(1), b \in Good(2) PROVE FALSE
  <2>1. b \in Int /\ b < Area(1) + EnvRange /\ b >= Area(2)
    BY <1>2, GoodFinite
  <2>2. Area(1) = Offset /\ Area(2) = Redund
    BY DEF Area
  <2> QED BY <2>1, <2>2, Layout
<1> QED BY <1>1, <1>2 DEF Spare, Target, Area

\* Where a whole copy has its header.
LEMMA Header ==
  ASSUME Typed, NEW n \in {1, 2}, CopyOk(n)
  PROVE  /\ \E b \in Good(n) : /\ Before(n, b) = 0 /\ flash[b] \in Pieces /\ flash[b].k = 1
                               /\ flash[b].e = Copy(n)
         /\ Copy(n) \in Envs /\ Copy(n).data = Copy(n).crc
<1>1. PICK b \in Good(n) : /\ Before(n, b) = 0 /\ flash[b].st = "part" /\ flash[b].k = 1
                           /\ flash[b].e.data = Copy(n).crc
  <2>1. 1 \in 1 .. Size /\ 1 - 1 = 0
    BY Layout
  <2> QED BY <2>1 DEF CopyOk
<1>2. \A c \in Good(n) : Before(n, c) = 0 => c = b
  BY <1>1, BeforeUnique
<1>3. (CHOOSE c \in Good(n) : Before(n, c) = 0) = b
  BY <1>1, <1>2
<1>4. Copy(n) = flash[b].e
  BY <1>3 DEF Copy
<1>5. flash[b] \in {Erased, Garbage} \cup Pieces
  BY GoodFinite DEF Typed
<1>6. flash[b] \in Pieces
  BY <1>1, <1>5 DEF Erased, Garbage
<1> QED BY <1>1, <1>4, <1>6 DEF Pieces

LEMMA Chosen ==
  Typed =>
    /\ Choice \in {0, valid, Spare}
    /\ Choice = valid => CopyOk(valid)
    /\ Choice = Spare => CopyOk(Spare)
    /\ Choice = 0 => ~CopyOk(valid) /\ ~CopyOk(Spare)
    /\ Choice # 0 => Loads = Copy(Choice)
    /\ Choice = 0 => Loads.data = Default
    /\ Loads \in Envs
<1> SUFFICES ASSUME Typed
             PROVE  /\ Choice \in {0, valid, Spare}
                    /\ Choice = valid => CopyOk(valid)
                    /\ Choice = Spare => CopyOk(Spare)
                    /\ Choice = 0 => ~CopyOk(valid) /\ ~CopyOk(Spare)
                    /\ Choice # 0 => Loads = Copy(Choice)
                    /\ Choice = 0 => Loads.data = Default
                    /\ Loads \in Envs
  OBVIOUS
<1>1. /\ Choice \in {0, 1, 2} /\ (Choice = 1 => CopyOk(1)) /\ (Choice = 2 => CopyOk(2))
      /\ Choice = 0 => ~CopyOk(1) /\ ~CopyOk(2)
  BY DEF Choice
<1>2. NoEnv \in Envs /\ NoEnv.data = Default
  BY DEF NoEnv, Env, Envs, Contents
<1>3. Loads \in Envs
  BY <1>1, <1>2, Header DEF Loads
<1>4. (Choice # 0 => Loads = Copy(Choice)) /\ (Choice = 0 => Loads.data = Default)
  BY <1>2 DEF Loads
<1>5. CASE valid = 1 /\ Spare = 2
  BY <1>1, <1>3, <1>4, <1>5
<1>6. CASE valid = 2 /\ Spare = 1
  BY <1>1, <1>3, <1>4, <1>6
<1> QED BY <1>5, <1>6, Sides

\* A copy whose good blocks a step leaves alone.
LEMMA SameCopy ==
  ASSUME Typed, NEW n \in {1, 2}, Good(n)' = Good(n), \A b \in Good(n) : flash'[b] = flash[b]
  PROVE  /\ CopyOk(n)' <=> CopyOk(n)
         /\ CopyOk(n) => Copy(n)' = Copy(n)
         /\ \A b : Before(n, b)' = Before(n, b)
<1>1. \A b : Before(n, b)' = Before(n, b)
  BY DEF Before
<1>2. CASE \E b \in Good(n) : Before(n, b) = 0
  <2>1. (CHOOSE c \in Good(n) : Before(n, c) = 0) \in Good(n)
    BY <1>2
  <2>2. (CHOOSE c \in Good(n)' : Before(n, c)' = 0) = CHOOSE c \in Good(n) : Before(n, c) = 0
    BY <1>1
  <2>3. Copy(n)' = Copy(n)
    BY <2>1, <2>2 DEF Copy
  <2> QED BY <1>1, <2>3 DEF CopyOk
<1>3. CASE ~\E b \in Good(n) : Before(n, b) = 0
  <2>1. 1 \in 1 .. Size /\ 1 - 1 = 0
    BY Layout
  <2>2. ~CopyOk(n) /\ ~CopyOk(n)'
    BY <1>1, <1>3, <2>1 DEF CopyOk
  <2> QED BY <1>1, <2>2
<1> QED BY <1>2, <1>3

\* The same, as a formula that holds of every state.
LEMMA Headers ==
  Typed => \A n \in {1, 2} : CopyOk(n) =>
    \E b \in Good(n) : /\ Before(n, b) = 0 /\ flash[b] \in Pieces /\ flash[b].k = 1
                       /\ flash[b].e = Copy(n)
BY Header

LEMMA SameChoice ==
  ASSUME Typed, \A n \in {1, 2} : /\ CopyOk(n)' <=> CopyOk(n)
                                  /\ CopyOk(n) => Copy(n)' = Copy(n)
  PROVE  Choice' = Choice /\ Loads' = Loads
<1>1. /\ CopyOk(1)' <=> CopyOk(1)
      /\ CopyOk(2)' <=> CopyOk(2)
      /\ CopyOk(1) => Copy(1)' = Copy(1)
      /\ CopyOk(2) => Copy(2)' = Copy(2)
  OBVIOUS
<1>2. Choice' = Choice
  BY <1>1 DEF Choice, FirstIsNewer
<1>3. Choice \in {0, 1, 2} /\ (Choice = 1 => CopyOk(1)) /\ (Choice = 2 => CopyOk(2))
  BY DEF Choice
<1>4. Loads' = Loads
  <2>1. CASE Choice = 0
    BY <1>2, <2>1 DEF Loads, NoEnv, Env
  <2>2. CASE Choice = 1
    BY <1>1, <1>2, <1>3, <2>2 DEF Loads
  <2>3. CASE Choice = 2
    BY <1>1, <1>2, <1>3, <2>3 DEF Loads
  <2> QED BY <1>3, <2>1, <2>2, <2>3
<1> QED BY <1>2, <1>4

\* Known, from what a step does to the two copies.
LEMMA Settled ==
  ASSUME Typed, Typed', Known, pc # "off", Sound, valid' = valid, acked' = acked,
         tried \subseteq tried',
         CopyOk(valid)' <=> CopyOk(valid), CopyOk(valid) => Copy(valid)' = Copy(valid),
         Choice' = Spare' => Copy(Spare)'.data \in tried',
         Saving' => env'.data \in tried'
  PROVE  Known'
<1>1. /\ CopyOk(valid) => Copy(valid).data = acked
      /\ ~CopyOk(valid) => acked = Default
  BY DEF Known
<1>2. (/\ Choice \in {0, valid, Spare}
       /\ Choice = valid => CopyOk(valid)
       /\ Choice = 0 => ~CopyOk(valid) /\ ~CopyOk(Spare)
       /\ Choice # 0 => Loads = Copy(Choice)
       /\ Choice = 0 => Loads.data = Default)'
  BY Chosen, PTL
<1>3. Loads'.data \in {acked'} \cup tried'
  <2>1. CASE Choice' = 0
    BY <1>1, <1>2, <2>1
  <2>2. CASE Choice' = valid /\ Choice' # 0
    BY <1>1, <1>2, <2>2
  <2>3. CASE Choice' = Spare' /\ Choice' # 0
    BY <1>2, <2>3
  <2> QED BY <1>2, <2>1, <2>2, <2>3
<1> QED BY <1>1, <1>3 DEF Known

\* Where the bad blocks leave room, the loop of a save does not come to the copy
\* in use; what it writes never does.
LEMMA Apart ==
  ASSUME Typed, Clearing, Filling, Erasing \/ Writing
  PROVE  /\ at \in Blocks /\ at \in Int /\ at >= Area(Spare)
         /\ Roomy \/ Writing => at \notin Area(valid) .. Area(valid) + EnvRange - 1
         /\ Writing => at < Area(Spare) + EnvRange
         /\ Roomy /\ valid = 2 => at < Redund
<1>1. at \in 0 .. NumBlocks /\ end \in Nat /\ Target = Area(Spare) /\ NumBlocks \in Nat
  BY Sides, Layout DEF Typed, TypeOK
<1>2. at >= Target /\ at < NumBlocks /\ (Writing => at < Target + EnvRange)
  <2>1. CASE Erasing
    BY <2>1 DEF Erasing, Writing, Clearing
  <2>2. CASE Writing
    <3>1. /\ pc = "write" /\ at < end /\ at \in Target .. Target + EnvRange
          /\ end = Target + EnvRange
      BY <2>2 DEF Writing, Filling
    <3>2. Target \in Nat /\ EnvRange \in Nat /\ Target + EnvRange <= NumBlocks
      BY Layout DEF Target
    <3> QED BY <1>1, <3>1, <3>2, Layout
  <2> QED BY <2>1, <2>2
<1>3. at \in Int /\ at \in Blocks
  BY <1>1, <1>2 DEF Blocks
<1>4. ASSUME Roomy, valid = 2 PROVE at < Redund
  <2>1. Target = Offset
    BY <1>4 DEF Target
  <2>2. CASE Writing
    BY <1>2, <1>3, <2>1, <2>2, Layout
  <2>3. CASE Erasing
    <3>1. /\ at < end /\ at <= Redund
          /\ end \in Offset + EnvRange .. Offset + EnvRange + Cardinality(Below(Met, at))
      BY <1>4, <2>1, <2>3 DEF Erasing, Clearing
    <3>2. SUFFICES ASSUME at = Redund PROVE FALSE
      BY <1>3, <3>1, Layout
    <3>3. \A b \in Blocks : b \in Int
      BY <1>1 DEF Blocks
    <3>4. Below(Met, Redund) = bad \cap (Offset .. Redund - 1)
      <4>1. \A b \in bad : b \in Int
        BY <3>3 DEF Typed, TypeOK
      <4>2. \A b \in Int : b >= Offset /\ b < Redund <=> b \in Offset .. Redund - 1
        BY Layout
      <4> QED BY <2>1, <4>1, <4>2 DEF Below, Met
    <3>5. Cardinality(Below(Met, at)) <= Redund - Offset - EnvRange
      BY <1>4, <3>2, <3>4 DEF Roomy
    <3>6. Cardinality(Below(Met, at)) \in Nat
      <4>1. bad \in SUBSET Blocks /\ IsFiniteSet(Blocks)
        BY <1>1, FS_Interval DEF Typed, TypeOK, Blocks
      <4>2. Below(Met, Redund) \in SUBSET Blocks
        BY <3>4, <4>1
      <4> QED BY <3>2, <4>1, <4>2, FS_Subset, FS_CardinalityType
    <3> QED BY <1>1, <3>1, <3>2, <3>5, <3>6, Layout
  <2> QED BY <2>2, <2>3
<1>5. ASSUME Roomy \/ Writing PROVE at \notin Area(valid) .. Area(valid) + EnvRange - 1
  <2>1. CASE valid = 1
    <3>1. Target = Redund /\ Area(valid) = Offset
      BY <2>1 DEF Target, Area
    <3> QED BY <1>2, <1>3, <3>1, Layout
  <2>2. CASE valid = 2
    <3>1. Target = Offset /\ Area(valid) = Redund
      BY <2>2 DEF Target, Area
    <3>2. at < Redund
      <4>1. CASE Roomy
        BY <1>4, <2>2, <4>1
      <4>2. CASE Writing
        BY <1>2, <1>3, <3>1, <4>2, Layout
      <4> QED BY <1>5, <4>1, <4>2
    <3> QED BY <1>3, <3>1, <3>2, Layout
  <2> QED BY <2>1, <2>2, Sides
<1> QED BY <1>1, <1>2, <1>3, <1>4, <1>5

\* A step that does not look for more room does not find it.
LEMMA NoRoomier ==
  ASSUME Typed, bad' = bad \/ bad' = bad \cup {at}
  PROVE  Roomy' => Roomy
<1>1. IsFiniteSet(bad) /\ IsFiniteSet(bad')
  <2>1. bad \in SUBSET Blocks /\ IsFiniteSet(Blocks)
    BY Layout, FS_Interval DEF Typed, TypeOK, Blocks
  <2>2. IsFiniteSet(bad)
    BY <2>1, FS_Subset
  <2> QED BY <2>2, FS_AddElement
<1>2. /\ IsFiniteSet(bad' \cap (Offset .. Redund - 1))
      /\ bad \cap (Offset .. Redund - 1) \in SUBSET (bad' \cap (Offset .. Redund - 1))
  BY <1>1, FS_Subset
<1>3. /\ Cardinality(bad \cap (Offset .. Redund - 1)) \in Nat
      /\ Cardinality(bad' \cap (Offset .. Redund - 1)) \in Nat
      /\ Cardinality(bad \cap (Offset .. Redund - 1))
           <= Cardinality(bad' \cap (Offset .. Redund - 1))
  BY <1>2, FS_Subset, FS_CardinalityType
<1> QED BY <1>3, Layout DEF Roomy

\* A step of the loop leaves the copy in use as it is.
LEMMA KeptCopy ==
  ASSUME NandInv, Erasing \/ Writing, Roomy \/ Writing, valid' = valid,
         bad' = bad \/ bad' = bad \cup {at},
         \A b \in Blocks : b # at => flash'[b] = flash[b]
  PROVE  /\ CopyOk(valid)' <=> CopyOk(valid)
         /\ CopyOk(valid) => Copy(valid)' = Copy(valid)
         /\ Good(valid)' = Good(valid) /\ \A b \in Good(valid) : flash'[b] = flash[b]
<1>a. Typed /\ Clearing /\ Filling
  BY DEF NandInv
<1>1. at \notin Area(valid) .. Area(valid) + EnvRange - 1
  BY <1>a, Apart
<1>2. Good(valid)' = Good(valid)
  BY <1>1 DEF Good, Area
<1>3. \A b \in Good(valid) : b \in Blocks /\ b # at
  BY <1>a, <1>1, Sides, GoodFinite DEF Good
<1>4. \A n \in {1, 2} : n = valid => /\ CopyOk(n)' <=> CopyOk(n)
                                     /\ CopyOk(n) => Copy(n)' = Copy(n)
  <2> SUFFICES ASSUME NEW n \in {1, 2}, n = valid
               PROVE  /\ CopyOk(n)' <=> CopyOk(n)
                      /\ CopyOk(n) => Copy(n)' = Copy(n)
    OBVIOUS
  <2>1. Good(n)' = Good(n) /\ \A b \in Good(n) : flash'[b] = flash[b]
    BY <1>2, <1>3
  <2> QED BY <1>a, <2>1, SameCopy
<1> QED BY <1>a, <1>2, <1>3, <1>4, Sides

\* The other one, when the block of the loop is lost, erased or marked bad:
\* what is then found in it was being saved.
LEMMA HarmedCopy ==
  ASSUME NandInv, Typed', Erasing \/ Writing, valid' = valid, env' = env, Sound,
         bad' = bad \/ bad' = bad \cup {at},
         \A b \in Blocks : b # at => flash'[b] = flash[b],
         flash'[at] \notin Pieces, Choice' = Spare'
  PROVE  Copy(Spare)'.data \in tried
<1>a. Typed /\ Ranked /\ Clearing /\ Filling /\ Known /\ Spare' = Spare
  BY DEF NandInv, Spare
<1>b. /\ at \in Blocks /\ at \in Int /\ Spare \in {1, 2}
      /\ CopyOk(valid)' <=> CopyOk(valid)
      /\ CopyOk(valid) => Copy(valid)' = Copy(valid)
  BY <1>a, Apart, KeptCopy, Sides DEF Sound
<1>1. CASE at \notin Good(Spare)
  <2>1. /\ Good(Spare)' = Good(Spare)
        /\ \A b \in Good(Spare) : flash'[b] = flash[b]
    BY <1>1, <1>a, <1>b, GoodFinite DEF Good, Area
  <2>2. \A n \in {1, 2} : n = Spare => /\ CopyOk(n)' <=> CopyOk(n)
                                       /\ CopyOk(n) => Copy(n)' = Copy(n)
    <3> SUFFICES ASSUME NEW n \in {1, 2}, n = Spare
                 PROVE  /\ CopyOk(n)' <=> CopyOk(n)
                        /\ CopyOk(n) => Copy(n)' = Copy(n)
      OBVIOUS
    <3>1. Good(n)' = Good(n) /\ \A b \in Good(n) : flash'[b] = flash[b]
      BY <1>a, <2>1
    <3> QED BY <1>a, <3>1, SameCopy
  <2>3. Choice' = Choice
    <3>1. \A n \in {1, 2} : /\ CopyOk(n)' <=> CopyOk(n)
                            /\ CopyOk(n) => Copy(n)' = Copy(n)
      BY <1>a, <1>b, <2>2, Sides
    <3> QED BY <1>a, <3>1, SameChoice
  <2>4. Choice = Spare /\ CopyOk(Spare) /\ Copy(Spare)' = Copy(Spare)
    BY <1>a, <1>b, <2>2, <2>3, Chosen
  <2>5. pc # "off"
    BY DEF Erasing, Writing
  <2> QED BY <1>a, <2>4, <2>5 DEF Known
<1>2. CASE at \in Good(Spare)
  <2>1. CopyOk(Spare)'
    <3>1. (Choice = Spare => CopyOk(Spare))'
      BY Chosen, PTL
    <3> QED BY <3>1
  <2>2. PICK b \in Good(Spare)' : /\ flash'[b] \in Pieces /\ flash'[b].k = 1
                                  /\ flash'[b].e = Copy(Spare)'
    <3>1. (\A n \in {1, 2} : CopyOk(n) =>
             \E b \in Good(n) : /\ Before(n, b) = 0 /\ flash[b] \in Pieces /\ flash[b].k = 1
                                /\ flash[b].e = Copy(n))'
      BY Headers, PTL
    <3> QED BY <1>a, <1>b, <2>1, <3>1
  <2>3. b \in Good(Spare) /\ b \in Blocks /\ b # at /\ flash'[b] = flash[b] /\ b \in Int
    <3>1. b \in Good(Spare)
      BY <1>a, <2>2 DEF Good, Area
    <3>2. b \in Blocks /\ b \in Int
      BY <1>a, <1>b, <3>1, GoodFinite
    <3> QED BY <2>2, <3>1, <3>2
  <2>4. flash[b].st = "part" /\ flash[b] # Erased
    BY <2>2, <2>3 DEF Pieces, Erased
  <2>5. CASE Erasing
    <3>1. ~(b < at)
      BY <1>a, <2>3, <2>4, <2>5 DEF Clearing, Erasing
    <3>2. at < b
      BY <1>b, <2>3, <3>1
    <3>3. Before(Spare, at) < Before(Spare, b) /\ Before(Spare, at) \in Nat /\ Before(Spare, b) \in Nat
      BY <1>a, <1>b, <1>2, <2>3, <3>2, BeforeLess, BeforeNat
    <3>4. 1 > Before(Spare, b)
      BY <1>a, <1>b, <2>2, <2>3, <2>4 DEF Ranked
    <3> QED BY <3>3, <3>4
  <2>6. CASE Writing
    <3>1. flash[b] = Part(Before(Spare, b) + 1, env)
      BY <1>a, <2>3, <2>4, <2>6 DEF Filling, Writing
    <3>2. Copy(Spare)' = env
      BY <2>2, <2>3, <3>1 DEF Part
    <3> QED BY <1>a, <2>6, <3>2 DEF Known, Saving, Writing
  <2> QED BY <2>5, <2>6
<1> QED BY <1>1, <1>2

\* No block comes earlier than it was written, as long as none is written.
LEMMA HarmedRanks ==
  ASSUME NandInv, Erasing \/ Writing,
         bad' = bad \/ bad' = bad \cup {at},
         \A b \in Blocks : b # at => flash'[b] = flash[b],
         flash'[at] = flash[at] \/ flash'[at] \in {Erased, Garbage}
  PROVE  Ranked'
<1>a. Typed /\ Ranked /\ Clearing /\ Filling
  BY DEF NandInv
<1> SUFFICES ASSUME NEW n \in {1, 2}, NEW b \in Good(n)', flash'[b].st = "part"
             PROVE  flash'[b].k > Before(n, b)'
  BY DEF Ranked
<1>1. b \in Good(n) /\ b \in Blocks /\ flash'[b] = flash[b] /\ b \in Int /\ at \in Int
  <2>1. b \in Good(n)
    BY DEF Good, Area
  <2>2. b \in Blocks /\ b \in Int
    BY <1>a, <2>1, GoodFinite
  <2> QED BY <1>a, <2>1, <2>2, Apart DEF Erased, Garbage
<1>2. flash[b].k > Before(n, b)
  BY <1>a, <1>1 DEF Ranked
<1>3. Before(n, b)' <= Before(n, b)
  <2>1. /\ IsFiniteSet(Good(n)) /\ Good(n) \subseteq Int
    BY <1>a, GoodFinite
  <2>2. Good(n)' \in SUBSET Good(n)
    BY DEF Good, Area
  <2>3. Cardinality(Below(Good(n)', b)) <= Cardinality(Below(Good(n), b)) 
    BY <1>1, <2>1, <2>2, BelowGrows
  <2> QED BY <2>3 DEF Before, Below
<1>4. Before(n, b) \in Nat /\ Before(n, b)' \in Nat /\ flash[b].k \in Int
  <2>1. Before(n, b)' \in Nat
    <3>1. IsFiniteSet(Good(n)) /\ Good(n)' \in SUBSET Good(n)
      BY <1>a, GoodFinite DEF Good, Area
    <3>2. IsFiniteSet(Good(n)')
      BY <3>1, FS_Subset
    <3> QED BY <3>2, BelowFinite DEF Before, Below
  <2>2. flash[b].k \in Int
    <3>1. flash[b] \in {Erased, Garbage} \cup Pieces
      BY <1>a, <1>1 DEF Typed
    <3> QED BY <1>1, <3>1, Layout DEF Erased, Garbage, Pieces
  <2> QED BY <1>a, <2>1, <2>2, BeforeNat
<1> QED BY <1>1, <1>2, <1>3, <1>4

(***************************************************************************)
(* NAND: steps.                                                            *)
(***************************************************************************)
\* The fields of Typed, one by one, for the steps to prove.
LEMMA TypedParts ==
  ASSUME bad' \subseteq Blocks, valid' \in {1, 2}, env' \in Envs,
         pc' \in {"off", "idle", "erase", "write"}, at' \in 0 .. NumBlocks, done' \in 0 .. Size,
         acked' \in Contents, flash' \in [Blocks -> {Erased, Garbage} \cup Pieces],
         spoilt' \in BOOLEAN, end' \in Nat, tried' \subseteq Contents
  PROVE  Typed'
BY DEF Typed, TypeOK, Contents, Envs

LEMMA TypedFacts ==
  ASSUME Typed
  PROVE  /\ bad \subseteq Blocks /\ valid \in {1, 2} /\ env \in Envs
         /\ pc \in {"off", "idle", "erase", "write"} /\ at \in 0 .. NumBlocks /\ done \in 0 .. Size
         /\ acked \in Contents /\ flash \in [Blocks -> {Erased, Garbage} \cup Pieces]
         /\ spoilt \in BOOLEAN /\ end \in Nat /\ tried \subseteq Contents
         /\ IsFiniteSet(bad) /\ Cardinality(bad) \in Nat
<1>1. IsFiniteSet(Blocks)
  <2>1. 0 \in Int /\ NumBlocks - 1 \in Int
    BY Layout
  <2> QED BY <2>1, FS_Interval DEF Blocks
<1>2. bad \in SUBSET Blocks
  BY DEF Typed, TypeOK
<1>3. IsFiniteSet(bad) /\ Cardinality(bad) \in Nat
  BY <1>1, <1>2, FS_Subset, FS_CardinalityType
<1> QED BY <1>3 DEF Typed, TypeOK, Contents

\* Steps that leave the device alone: its copies and its ranks stay.
LEMMA SameDevice ==
  ASSUME Typed, flash' = flash, bad' = bad
  PROVE  /\ \A n \in {1, 2} : /\ CopyOk(n)' <=> CopyOk(n)
                              /\ CopyOk(n) => Copy(n)' = Copy(n)
                              /\ Good(n)' = Good(n) /\ \A b : Before(n, b)' = Before(n, b)
         /\ Choice' = Choice /\ Loads' = Loads /\ (Ranked => Ranked')
<1>1. ASSUME NEW n \in {1, 2}
      PROVE  /\ CopyOk(n)' <=> CopyOk(n)
             /\ CopyOk(n) => Copy(n)' = Copy(n)
             /\ Good(n)' = Good(n) /\ \A b : Before(n, b)' = Before(n, b)
  <2>1. Good(n)' = Good(n)
    BY DEF Good, Area
  <2>2. \A b \in Good(n) : flash'[b] = flash[b]
    OBVIOUS
  <2> QED BY <2>1, <2>2, SameCopy
<1>2. Choice' = Choice /\ Loads' = Loads
  BY <1>1, SameChoice
<1>3. Ranked => Ranked'
  BY <1>1 DEF Ranked
<1> QED BY <1>1, <1>2, <1>3

LEMMA NandInit == Init => NandInv
<1> SUFFICES ASSUME Init PROVE NandInv
  OBVIOUS
<1>1. /\ bad \in SUBSET Blocks
      /\ env = NoEnv /\ valid = 1 /\ pc = "off"
      /\ at = 0 /\ end = 0 /\ done = 0
      /\ tried = {} /\ spoilt = FALSE /\ acked = Loads.data
  BY DEF Init
<1>2. PICK f \in Serials, newer \in {1, 2}, used \in BOOLEAN, v \in Values :
        flash = [b \in Blocks |->
          IF used /\ b \in Good(1) /\ Before(1, b) < Size
          THEN Part(Before(1, b) + 1, Env(v, IF 1 = newer THEN (f + 1) % 256 ELSE f))
          ELSE IF used /\ b \in Good(2) /\ Before(2, b) < Size
          THEN Part(Before(2, b) + 1, Env(v, IF 2 = newer THEN (f + 1) % 256 ELSE f))
          ELSE Erased]
  BY DEF Init
<1>3. \A n \in {1, 2} : /\ IsFiniteSet(Good(n)) /\ Good(n) \subseteq Blocks
                        /\ \A b : Before(n, b) \in Nat
  <2> SUFFICES ASSUME NEW n \in {1, 2}
               PROVE  /\ IsFiniteSet(Good(n)) /\ Good(n) \subseteq Blocks
                      /\ \A b : Before(n, b) \in Nat
    OBVIOUS
  <2>1. Area(n) \in Nat /\ Area(n) + EnvRange <= NumBlocks
    <3>1. Area(n) = Offset \/ Area(n) = Redund
      BY DEF Area
    <3> QED BY <3>1, Layout
  <2>2. Good(n) \in SUBSET (Area(n) .. Area(n) + EnvRange - 1)
    BY DEF Good
  <2>3. IsFiniteSet(Good(n))
    <3>1. Area(n) \in Int /\ Area(n) + EnvRange - 1 \in Int
      BY <2>1, Layout
    <3>2. IsFiniteSet(Area(n) .. Area(n) + EnvRange - 1)
      BY <3>1, FS_Interval
    <3> QED BY <2>2, <3>2, FS_Subset
  <2>4. Good(n) \subseteq Blocks
    BY <2>1, <2>2, Layout DEF Blocks
  <2> QED BY <2>3, <2>4, BeforeBelow, BelowFinite
<1>4. \A n \in {1, 2} : Env(v, IF n = newer THEN (f + 1) % 256 ELSE f) \in Envs
  <2>1. f \in 0 .. 255 /\ (f + 1) % 256 \in 0 .. 255
    <3>1. f \in 0 .. 255
      BY EnvNandAssumption
    <3> QED BY <3>1
  <2> QED BY <2>1 DEF Env, Envs, Contents
<1>5. ASSUME NEW n \in {1, 2}, NEW b \in Blocks, Before(n, b) < Size,
             NEW e \in Envs
      PROVE  Part(Before(n, b) + 1, e) \in Pieces
  <2>1. Before(n, b) + 1 \in 1 .. Size
    BY <1>3, <1>5, Layout
  <2> QED BY <2>1 DEF Part, Pieces
<1>6. flash \in [Blocks -> {Erased, Garbage} \cup Pieces]
  <2>1. ASSUME NEW b \in Blocks PROVE flash[b] \in {Erased, Garbage} \cup Pieces
    BY <1>2, <1>4, <1>5
  <2> QED BY <1>2, <2>1
<1>7. Loads.data \in Contents
  <2>1. CASE Choice = 0
    BY <2>1 DEF Loads, NoEnv, Env, Contents
  <2>2. CASE Choice # 0
    <3>1. PICK n \in {1, 2} : n = Choice /\ CopyOk(n)
      BY <2>2 DEF Choice
    <3>2. PICK b \in Good(n) : Before(n, b) = 0 /\ flash[b].st = "part"
      <4>1. 1 \in 1 .. Size /\ 1 - 1 = 0
        BY Layout
      <4> QED BY <3>1, <4>1 DEF CopyOk
    <3>3. used
      BY <1>2, <1>3, <3>2 DEF Erased
    <3>4. PICK c \in Good(n) : Before(n, c) = 0 /\ Copy(n) = flash[c].e
      BY <3>2 DEF Copy
    <3>5. c \in Blocks /\ Before(n, c) < Size
      BY <1>3, <3>4, Layout
    <3>6. flash[c].e \in Envs
      BY <1>2, <1>4, <3>3, <3>4, <3>5 DEF Part
    <3> QED BY <2>2, <3>1, <3>4, <3>6 DEF Loads, Envs
  <2> QED BY <2>1, <2>2
<1>8. Typed
  <2>1. env \in Envs /\ 0 \in 0 .. NumBlocks /\ 0 \in 0 .. Size
    BY <1>1, Layout DEF NoEnv, Env, Envs, Contents
  <2> QED BY <1>1, <1>6, <1>7, <2>1 DEF Typed, TypeOK, Contents, Envs
<1>9. Ranked
  <2> SUFFICES ASSUME NEW n \in {1, 2}, NEW b \in Good(n), flash[b].st = "part"
               PROVE  flash[b].k > Before(n, b)
    BY DEF Ranked
  <2>1. b \in Blocks /\ Before(n, b) \in Nat
    BY <1>3
  <2>2. (n = 1 => b \notin Good(2)) /\ (n = 2 => b \notin Good(1))
    <3>1. \A c \in Good(1) : c \notin Good(2)
      BY <1>8, Sides
    <3> QED BY <3>1
  <2>3. flash[b].k = Before(n, b) + 1
    BY <1>2, <2>1, <2>2 DEF Part, Erased
  <2> QED BY <2>1, <2>3
<1>10. Clearing /\ Filling /\ Known
  BY <1>1 DEF Clearing, Filling, Known, Saving
<1> QED BY <1>8, <1>9, <1>10 DEF NandInv

LEMMA NandBoot == ASSUME NandInv, Boot PROVE NandInv'
<1>a. /\ Typed /\ Ranked /\ Known /\ pc = "off" /\ pc' = "idle"
      /\ env' = Loads /\ valid' = IF Choice = 0 THEN 1 ELSE Choice
      /\ acked' = IF spoilt THEN acked ELSE Loads.data
      /\ tried' = IF spoilt THEN tried ELSE {}
      /\ flash' = flash /\ bad' = bad /\ spoilt' = spoilt
      /\ at' = at /\ end' = end /\ done' = done
  BY DEF NandInv, Boot, loop
<1>b. /\ Choice \in {0, 1, 2} /\ Loads \in Envs
      /\ Choice # 0 => CopyOk(Choice) /\ Loads = Copy(Choice)
      /\ Choice = 0 => ~CopyOk(1) /\ ~CopyOk(2) /\ Loads.data = Default
  BY <1>a, Chosen, Sides
<1>1. Typed'
  <2>1. Loads.data \in Contents
    BY <1>b DEF Envs
  <2> QED BY <1>a, <1>b, <2>1, TypedFacts, TypedParts
<1>2. Ranked' /\ Clearing' /\ Filling'
  BY <1>a, SameDevice DEF Clearing, Filling
<1>3. Known'
  <2> SUFFICES ASSUME Sound PROVE Known'
    BY <1>a, NoRoomier DEF Known, Sound
  <2>1. /\ acked' = Loads.data /\ Choice' = Choice /\ Loads' = Loads
        /\ \A n \in {1, 2} : /\ CopyOk(n)' <=> CopyOk(n)
                             /\ CopyOk(n) => Copy(n)' = Copy(n)
    BY <1>a, SameDevice DEF Sound
  <2>2. CASE Choice = 0
    <3>1. ~CopyOk(valid)' /\ acked' = Default /\ Choice' # Spare'
      BY <1>a, <1>b, <2>1, <2>2 DEF Spare
    <3> QED BY <1>a, <3>1 DEF Known, Saving
  <2>3. CASE Choice # 0
    <3>1. /\ CopyOk(valid)' /\ Copy(valid)' = Loads /\ Choice' # Spare'
      BY <1>a, <1>b, <2>1, <2>3 DEF Spare
    <3> QED BY <1>a, <2>1, <3>1 DEF Known, Saving
  <2> QED BY <2>2, <2>3
<1> QED BY <1>1, <1>2, <1>3 DEF NandInv

\* The user changes what is in RAM, or a step moves nothing but the loop.
LEMMA NandQuiet ==
  ASSUME NandInv, flash' = flash, bad' = bad, valid' = valid, acked' = acked, tried' = tried,
         spoilt' = spoilt, pc # "off", Sound /\ Saving' => env'.data \in tried, Typed'
  PROVE  Ranked' /\ Known'
<1>a. Typed /\ Ranked /\ Known /\ Spare' = Spare
  BY DEF NandInv, Spare
<1>1. /\ \A n \in {1, 2} : /\ CopyOk(n)' <=> CopyOk(n)
                           /\ CopyOk(n) => Copy(n)' = Copy(n)
      /\ Choice' = Choice /\ Ranked'
  BY <1>a, SameDevice
<1>2. valid \in {1, 2} /\ Spare \in {1, 2} /\ (Choice = Spare => CopyOk(Spare))
  BY <1>a, Sides, Chosen
<1>3. ASSUME Sound PROVE Known'
  <2>1. Choice' = Spare' => Copy(Spare)'.data \in tried'
    BY <1>a, <1>1, <1>2, <1>3 DEF Known
  <2>2. /\ CopyOk(valid)' <=> CopyOk(valid)
        /\ CopyOk(valid) => Copy(valid)' = Copy(valid)
    BY <1>1, <1>2
  <2> QED BY <1>a, <1>3, <2>1, <2>2, Settled
<1> QED BY <1>a, <1>1, <1>3, NoRoomier DEF Known, Sound

LEMMA NandUser ==
  ASSUME NandInv, NEW v \in Values, SetEnv(v) \/ SetTooLong(v)
  PROVE  NandInv'
<1>a. /\ Typed /\ pc = "idle" /\ flash' = flash /\ bad' = bad /\ valid' = valid /\ pc' = pc
      /\ at' = at /\ end' = end /\ done' = done
      /\ acked' = acked /\ tried' = tried /\ spoilt' = spoilt
      /\ env' = [env EXCEPT !.data = v, !.crc = v] \/ env' = [env EXCEPT !.data = v]
  BY DEF NandInv, SetEnv, SetTooLong, loop, hist
<1>1. env' \in Envs
  BY <1>a, TypedFacts DEF Envs, Contents
<1>2. Typed'
  BY <1>a, <1>1, TypedFacts, TypedParts
<1>3. Ranked' /\ Known'
  BY <1>a, <1>2, NandQuiet DEF Saving
<1>4. Clearing' /\ Filling'
  BY <1>a DEF Clearing, Filling
<1> QED BY <1>2, <1>3, <1>4 DEF NandInv

LEMMA NandSaveEnv == ASSUME NandInv, SaveEnv PROVE NandInv'
<1>a. /\ Typed /\ Ranked /\ Known /\ pc = "idle" /\ pc' = "erase" /\ flash' = flash /\ bad' = bad
      /\ valid' = valid /\ at' = Target /\ end' = Target + EnvRange /\ done' = 0
      /\ env' = [env EXCEPT !.flags = (@ + 1) % 256] /\ tried' = tried \cup {env.data}
      /\ acked' = acked /\ spoilt' = spoilt
  BY DEF NandInv, SaveEnv
<1>b. /\ Target \in Nat /\ EnvRange \in Nat /\ Target + EnvRange \in Nat
      /\ Target \in 0 .. NumBlocks /\ 0 \in 0 .. Size
      /\ Target' = Target /\ Spare' = Spare /\ Spare \in {1, 2} /\ Target = Area(Spare)
  BY <1>a, Layout, Sides DEF Target, Spare
<1>1. env' \in Envs /\ env'.data = env.data /\ env.data \in Contents
  <2>1. env \in Envs /\ env.flags \in 0 .. 255
    BY <1>a, TypedFacts DEF Envs
  <2>2. (env.flags + 1) % 256 \in 0 .. 255
    BY <2>1
  <2> QED BY <1>a, <2>1, <2>2 DEF Envs
<1>2. Typed'
  BY <1>a, <1>b, <1>1, TypedFacts, TypedParts
<1>c. /\ \A n \in {1, 2} : /\ CopyOk(n)' <=> CopyOk(n)
                           /\ CopyOk(n) => Copy(n)' = Copy(n)
                           /\ Good(n)' = Good(n)
      /\ Choice' = Choice /\ Ranked'
  BY <1>a, SameDevice
<1>3. Clearing'
  <2>1. Cardinality(Below(Met, at)') \in Nat
    <3>1. IsFiniteSet(bad') /\ Met' \in SUBSET bad'
      BY <1>a, TypedFacts DEF Met
    <3>2. Cardinality(Below(Met', at')) \in Nat
      BY <3>1, FS_Subset, BelowFinite
    <3> QED BY <3>2 DEF Below
  <2>2. /\ end' \in Target' + EnvRange .. Target' + EnvRange + Cardinality(Below(Met, at)')
        /\ valid' = 2 => at' <= Redund
    BY <1>a, <1>b, <2>1, Layout DEF Target
  <2>3. \A b \in Good(Spare)' : ~(b < at')
    <3>1. Good(Spare)' = Good(Spare)
      BY <1>b, <1>c
    <3>2. \A b \in Good(Spare) : b \in Int /\ b >= Target
      BY <1>a, <1>b, GoodFinite
    <3> QED BY <1>a, <1>b, <3>1, <3>2
  <2> QED BY <1>a, <1>b, <2>2, <2>3 DEF Clearing
<1>4. Known'
  <2> SUFFICES ASSUME Sound PROVE Known'
    BY <1>a, NoRoomier DEF Known, Sound
  <2>1. valid \in {1, 2} /\ Spare \in {1, 2} /\ (Choice = Spare => CopyOk(Spare))
    BY <1>a, Sides, Chosen
  <2>2. Choice' = Spare' => Copy(Spare)'.data \in tried'
    BY <1>a, <1>b, <1>c, <2>1 DEF Known
  <2>3. /\ CopyOk(valid)' <=> CopyOk(valid)
        /\ CopyOk(valid) => Copy(valid)' = Copy(valid)
    BY <1>a, <1>c, <2>1
  <2>4. tried \subseteq tried' /\ env'.data \in tried'
    BY <1>a, <1>1
  <2> QED BY <1>a, <1>2, <2>2, <2>3, <2>4, Settled
<1> QED BY <1>a, <1>2, <1>c, <1>3, <1>4 DEF NandInv, Filling

LEMMA NandEraseBlock == ASSUME NandInv, EraseBlock PROVE NandInv'
<1>a. /\ Typed /\ Ranked /\ Clearing /\ Filling /\ Known /\ Erasing /\ pc = "erase" /\ pc' = pc
      /\ at' = at + 1 /\ valid' = valid /\ env' = env /\ done' = done
      /\ acked' = acked /\ tried' = tried /\ spoilt' = spoilt
      /\ \/ at \in bad /\ end' = end + 1 /\ flash' = flash /\ bad' = bad
         \/ at \notin bad /\ flash' = [flash EXCEPT ![at] = Erased] /\ end' = end /\ bad' = bad
         \/ /\ at \notin bad
            /\ bad' = bad \cup {at} /\ flash' = [flash EXCEPT ![at] = Garbage] /\ end' = end
  BY DEF NandInv, EraseBlock, Erasing, hist
<1>b. /\ at \in Blocks /\ at \in Int /\ at < NumBlocks /\ NumBlocks \in Nat /\ at \in 0 .. NumBlocks
      /\ Spare \in {1, 2} /\ Spare' = Spare /\ Target' = Target /\ Target \in Nat
      /\ flash \in [Blocks -> {Erased, Garbage} \cup Pieces]
  BY <1>a, Apart, Sides, TypedFacts, Layout DEF Erasing, Spare, Target
<1>1. Typed'
  <2>1. at' \in 0 .. NumBlocks /\ end' \in Nat
    BY <1>a, <1>b, TypedFacts
  <2>2. flash' \in [Blocks -> {Erased, Garbage} \cup Pieces]
    BY <1>a, <1>b
  <2>3. bad' \subseteq Blocks
    BY <1>a, <1>b, TypedFacts
  <2> QED BY <1>a, <2>1, <2>2, <2>3, TypedFacts, TypedParts
<1>2. Clearing'
  <2>1. at' >= Target' /\ done' = 0
    BY <1>a, <1>b DEF Clearing
  <2>2. end' \in Target' + EnvRange .. Target' + EnvRange + Cardinality(Below(Met, at)')
    <3>1. /\ IsFiniteSet(Met) /\ Met \subseteq Int /\ IsFiniteSet(Met') /\ Met' \subseteq Int
          /\ Met \in SUBSET Met'
      <4>1. /\ IsFiniteSet(bad) /\ bad \subseteq Int /\ IsFiniteSet(bad') /\ bad' \subseteq Int
            /\ bad \subseteq bad'
        BY <1>a, <1>1, <1>b, TypedFacts, FS_AddElement DEF Blocks
      <4>2. Met \in SUBSET bad /\ Met' \in SUBSET bad' /\ Met \in SUBSET Met'
        BY <1>b, <4>1 DEF Met
      <4> QED BY <4>1, <4>2, FS_Subset
    <3>2. /\ Cardinality(Below(Met, at)) \in Nat /\ Cardinality(Below(Met', at + 1)) \in Nat
          /\ Cardinality(Below(Met, at)) <= Cardinality(Below(Met', at + 1))
      <4>1. at <= at + 1 /\ at + 1 \in Int
        BY <1>b
      <4> QED BY <1>b, <3>1, <4>1, BelowFinite, BelowGrows
    <3>3. Below(Met, at)' = Below(Met', at + 1)
      BY <1>a DEF Below
    <3>4. /\ end \in Target + EnvRange .. Target + EnvRange + Cardinality(Below(Met, at))
          /\ EnvRange \in Nat
      BY <1>a, Layout DEF Clearing
    <3>5. CASE end' = end
      BY <1>b, <3>2, <3>3, <3>4, <3>5
    <3>6. CASE at \in bad /\ end' = end + 1 /\ bad' = bad
      <4>1. at \in Met /\ Met' = Met
        BY <1>a, <1>b, <3>6 DEF Clearing, Met
      <4>2. Cardinality(Below(Met, at + 1)) = Cardinality(Below(Met, at)) + 1
        BY <1>b, <3>1, <4>1, BelowStep
      <4> QED BY <1>b, <3>2, <3>3, <3>4, <3>6, <4>1, <4>2
    <3> QED BY <1>a, <3>5, <3>6
  <2>4. Roomy' /\ valid' = 2 => at' <= Redund
    BY <1>a, <1>b, Apart, NoRoomier, Layout
  <2>3. ASSUME NEW b \in Good(Spare)', b < at' PROVE flash'[b] = Erased
    <3>1. b \in Good(Spare)
      BY <1>a, <1>b DEF Good, Area
    <3>2. b \in Int /\ b \in Blocks /\ b \notin bad
      BY <1>a, <1>b, <3>1, GoodFinite
    <3>3. b < at \/ b = at
      BY <1>a, <1>b, <2>3, <3>2
    <3>4. b \notin bad'
      BY DEF Good, Area
    <3>5. CASE b = at
      BY <1>a, <1>b, <3>2, <3>4, <3>5
    <3>6. CASE b # at /\ b < at
      <4>1. flash[b] = Erased
        BY <1>a, <3>1, <3>6 DEF Clearing
      <4> QED BY <1>a, <1>b, <3>2, <3>6, <4>1
    <3> QED BY <3>3, <3>5, <3>6
  <2> QED BY <2>1, <2>2, <2>3, <2>4 DEF Clearing
<1>3. Ranked' /\ Known'
  <2>1. CASE at \in bad /\ flash' = flash /\ bad' = bad
    BY <1>a, <1>1, <2>1, NandQuiet DEF Saving, Known, NandInv
  <2>2. CASE at \notin bad
    <3>1. /\ \A b \in Blocks : b # at => flash'[b] = flash[b]
          /\ flash'[at] \in {Erased, Garbage} /\ flash'[at] \notin Pieces
          /\ bad' = bad \/ bad' = bad \cup {at}
      BY <1>a, <1>b, <2>2 DEF Pieces, Erased, Garbage
    <3>2. Ranked'
      BY <1>a, <3>1, HarmedRanks
    <3>3. ASSUME Sound PROVE Known'
      <4>1. Choice' = Spare' => Copy(Spare)'.data \in tried'
        BY <1>a, <1>1, <3>1, <3>3, HarmedCopy
      <4>2. /\ CopyOk(valid)' <=> CopyOk(valid)
            /\ CopyOk(valid) => Copy(valid)' = Copy(valid)
        BY <1>a, <3>1, <3>3, KeptCopy DEF Sound
      <4>3. env'.data \in tried'
        BY <1>a, <3>3 DEF Known, Saving
      <4> QED BY <1>a, <1>1, <3>3, <4>1, <4>2, <4>3, Settled
    <3> QED BY <1>a, <3>2, <3>3, NoRoomier DEF Known, Sound
  <2> QED BY <1>a, <2>1, <2>2
<1> QED BY <1>a, <1>1, <1>2, <1>3 DEF NandInv, Filling

LEMMA NandEraseDone == ASSUME NandInv, EraseDone PROVE NandInv'
<1>a. /\ Typed /\ Clearing /\ Known /\ pc = "erase" /\ ~(at < end /\ at < NumBlocks)
      /\ pc' = "write" /\ at' = Target /\ end' = Target + EnvRange
      /\ flash' = flash /\ bad' = bad /\ env' = env /\ valid' = valid /\ done' = done
      /\ acked' = acked /\ tried' = tried /\ spoilt' = spoilt
  BY DEF NandInv, EraseDone, hist
<1>b. /\ Target \in Nat /\ EnvRange \in Nat /\ Target + EnvRange \in Nat
      /\ Target \in 0 .. NumBlocks /\ Target + EnvRange <= NumBlocks
      /\ Target' = Target /\ Spare' = Spare /\ Spare \in {1, 2} /\ Target = Area(Spare)
      /\ at \in Nat /\ end \in Nat /\ NumBlocks \in Nat
  BY <1>a, Layout, Sides, TypedFacts DEF Target, Spare
<1>1. Typed'
  BY <1>a, <1>b, TypedFacts, TypedParts
<1>2. Ranked' /\ Known'
  BY <1>a, <1>1, NandQuiet DEF Saving, Known
<1>3. Filling'
  <2>1. /\ done = 0 /\ end >= Target + EnvRange
        /\ \A b \in Good(Spare) : b < at => flash[b] = Erased
    <3>1. Cardinality(Below(Met, at)) \in Nat
      <4>1. IsFiniteSet(bad) /\ Met \in SUBSET bad
        BY <1>a, TypedFacts DEF Met
      <4> QED BY <4>1, FS_Subset, BelowFinite
    <3>2. end \in Target + EnvRange .. Target + EnvRange + Cardinality(Below(Met, at))
      BY <1>a DEF Clearing
    <3> QED BY <1>a, <1>b, <3>1, <3>2 DEF Clearing
  <2>2. at >= Target + EnvRange
    BY <1>a, <1>b, <2>1
  <2>3. \A n \in {1, 2} : Good(n)' = Good(n) /\ \A b : Before(n, b)' = Before(n, b)
    BY <1>a, SameDevice
  <2>4. ASSUME NEW b \in Good(Spare)' PROVE flash'[b] = Erased /\ ~(b < at')
    <3>1. b \in Good(Spare) /\ b \in Int /\ b >= Target /\ b < Target + EnvRange
      BY <1>a, <1>b, <2>3, GoodFinite
    <3>2. b < at
      BY <1>b, <2>2, <3>1
    <3> QED BY <1>a, <1>b, <2>1, <3>1, <3>2
  <2>5. Before(Spare, at)' = 0
    <3>1. Before(Spare, Target) = 0
      BY <1>a, <1>b, BeforeFirst
    <3> QED BY <1>a, <1>b, <2>3, <3>1 DEF Before, Good, Area
  <2> QED BY <1>a, <1>b, <2>1, <2>4, <2>5 DEF Filling
<1>4. Clearing'
  BY <1>a DEF Clearing
<1> QED BY <1>1, <1>2, <1>3, <1>4 DEF NandInv

LEMMA NandWriteBlock == ASSUME NandInv, WriteBlock PROVE NandInv'
<1>a. /\ Typed /\ Ranked /\ Clearing /\ Filling /\ Known /\ Writing /\ pc = "write" /\ pc' = pc
      /\ at' = at + 1 /\ valid' = valid /\ env' = env /\ end' = end /\ bad' = bad
      /\ acked' = acked /\ tried' = tried /\ spoilt' = spoilt /\ done < Size /\ at < end
      /\ IF at \in bad THEN flash' = flash /\ done' = done
         ELSE flash' = [flash EXCEPT ![at] = Part(done + 1, env)] /\ done' = done + 1
  BY DEF NandInv, WriteBlock, Writing, hist
<1>b. /\ at \in Blocks /\ at \in Int /\ at >= Area(Spare) /\ at < Area(Spare) + EnvRange
      /\ at \notin Area(valid) .. Area(valid) + EnvRange - 1
      /\ Spare \in {1, 2} /\ valid \in {1, 2} /\ Spare' = Spare /\ Spare # valid
      /\ \/ valid = 1 /\ Spare = 2
         \/ valid = 2 /\ Spare = 1
      /\ Target' = Target /\ Target = Area(Spare) /\ Area(Spare) \in Int
      /\ flash \in [Blocks -> {Erased, Garbage} \cup Pieces]
      /\ \A n \in {1, 2} : Good(n)' = Good(n) /\ \A b : Before(n, b)' = Before(n, b)
  <2>1. \A n \in {1, 2} : Good(n)' = Good(n) /\ \A b : Before(n, b)' = Before(n, b)
    BY <1>a DEF Before, Good, Area
  <2> QED BY <1>a, <2>1, Apart, Sides, TypedFacts, GoodFinite DEF Spare, Target
<1>c. /\ at \in Good(Spare) <=> at \notin bad
      /\ at \notin Good(valid)
  BY <1>b, Layout DEF Good
<1>d. /\ at \in Target .. Target + EnvRange /\ end = Target + EnvRange
      /\ done = Before(Spare, at) /\ done \in 0 .. Size /\ EnvRange \in Nat /\ Size \in Nat
      /\ Before(Spare, at + 1) = Before(Spare, at) + (IF at \in Good(Spare) THEN 1 ELSE 0)
      /\ \A b \in Good(Spare) : b \in Int /\ b \in Blocks
  BY <1>a, <1>b, BeforeStep, TypedFacts, GoodFinite, Layout DEF Filling
<1>1. Typed'
  <2>1. at' \in 0 .. NumBlocks /\ done' \in 0 .. Size
    BY <1>a, <1>b, <1>d, Layout DEF Blocks
  <2>2. flash' \in [Blocks -> {Erased, Garbage} \cup Pieces]
    <3>1. env \in Envs /\ done + 1 \in 1 .. Size
      BY <1>a, <1>d, TypedFacts
    <3>2. Part(done + 1, env) \in Pieces
      BY <3>1 DEF Part, Pieces
    <3> QED BY <1>a, <1>b, <3>2
  <2> QED BY <1>a, <2>1, <2>2, TypedFacts, TypedParts
<1>2. Filling'
  <2>1. /\ at' \in Target' .. Target' + EnvRange /\ end' = Target' + EnvRange
        /\ done' = Before(Spare, at)'
    <3>1. at + 1 \in Target .. Target + EnvRange
      BY <1>b, <1>d
    <3>2. done' = Before(Spare, at + 1)
      BY <1>a, <1>c, <1>d
    <3>3. Before(Spare, at)' = Before(Spare, at + 1)
      BY <1>a, <1>b DEF Before, Good, Area
    <3> QED BY <1>a, <1>b, <1>d, <3>1, <3>2, <3>3
  <2>2. ASSUME NEW b \in Good(Spare)
        PROVE  flash'[b] = IF b < at + 1 THEN Part(Before(Spare, b) + 1, env) ELSE Erased
    <3>1. flash[b] = IF b < at THEN Part(Before(Spare, b) + 1, env) ELSE Erased
      BY <1>a DEF Filling
    <3>2. b \in Int /\ b \in Blocks
      BY <1>d
    <3>3. CASE b = at
      BY <1>a, <1>b, <1>c, <1>d, <3>2, <3>3
    <3>4. CASE b # at
      <4>1. flash'[b] = flash[b]
        BY <1>a, <1>b, <3>2, <3>4
      <4>2. b < at + 1 <=> b < at
        BY <1>b, <3>2, <3>4
      <4> QED BY <3>1, <4>1, <4>2
    <3> QED BY <3>3, <3>4
  <2>3. ASSUME NEW i \in 1 .. done'
        PROVE  \E b \in Good(Spare) : b < at + 1 /\ Before(Spare, b) = i - 1
    <3>1. CASE i \in 1 .. done
      <4>1. PICK b \in Good(Spare) : b < at /\ Before(Spare, b) = i - 1
        BY <1>a, <3>1 DEF Filling
      <4>2. b < at + 1
        BY <1>b, <1>d, <4>1
      <4> QED BY <4>1, <4>2
    <3>2. CASE i \notin 1 .. done
      <4>1. at \notin bad /\ i = done + 1
        BY <1>a, <1>d, <3>2
      <4>2. at \in Good(Spare) /\ Before(Spare, at) = i - 1 /\ at < at + 1
        BY <1>b, <1>c, <1>d, <4>1
      <4> QED BY <4>2
    <3> QED BY <3>1, <3>2
  <2>4. /\ \A b \in Good(Spare)' :
             flash'[b] = IF b < at' THEN Part(Before(Spare, b)' + 1, env') ELSE Erased
        /\ \A i \in 1 .. done' : \E b \in Good(Spare)' : b < at' /\ Before(Spare, b)' = i - 1
    <3>1. Good(Spare)' = Good(Spare) /\ \A b : Before(Spare, b)' = Before(Spare, b)
      BY <1>b
    <3> QED BY <1>a, <2>2, <2>3, <3>1
  <2> QED BY <2>1, <2>4 DEF Filling
<1>3. CASE at \in bad
  <2>1. Ranked' /\ Known'
    BY <1>a, <1>1, <1>3, NandQuiet DEF Saving, Known
  <2> QED BY <1>a, <1>1, <1>2, <2>1 DEF NandInv, Clearing
<1>4. CASE at \notin bad
  <2>a. /\ flash'[at] = Part(done + 1, env)
        /\ \A b \in Blocks : b # at => flash'[b] = flash[b]
    BY <1>a, <1>b, <1>4
  <2>1. Ranked'
    <3> SUFFICES ASSUME NEW n \in {1, 2}, NEW b \in Good(n), flash'[b].st = "part"
                 PROVE  flash'[b].k > Before(n, b)
      BY <1>b DEF Ranked
    <3>1. CASE b = at
      <4>1. n = Spare
        BY <1>b, <1>c, <3>1
      <4> QED BY <1>d, <2>a, <3>1, <4>1 DEF Part
    <3>2. CASE b # at
      <4>1. b \in Blocks
        BY <1>a, GoodFinite
      <4> QED BY <1>a, <2>a, <3>2, <4>1 DEF Ranked
    <3> QED BY <3>1, <3>2
  <2>2. ASSUME Sound PROVE Known'
    <3>1. /\ CopyOk(valid)' <=> CopyOk(valid)
          /\ CopyOk(valid) => Copy(valid)' = Copy(valid)
      BY <1>a, <2>a, KeptCopy
    <3>2. ASSUME Choice' = Spare' PROVE Copy(Spare)'.data \in tried'
      <4>1. (Choice = Spare => CopyOk(Spare))'
        BY <1>1, Chosen, PTL
      <4>2. (\A n \in {1, 2} : CopyOk(n) =>
               \E b \in Good(n) : /\ Before(n, b) = 0 /\ flash[b] \in Pieces /\ flash[b].k = 1
                                  /\ flash[b].e = Copy(n))'
        BY <1>1, Headers, PTL
      <4>3. PICK b \in Good(Spare)' : flash'[b] \in Pieces /\ flash'[b].e = Copy(Spare)'
        BY <1>1, <1>b, <3>2, <4>1, <4>2
      <4>4. flash'[b] = Part(Before(Spare, b)' + 1, env')
        BY <1>a, <1>2, <4>3 DEF Filling, Pieces, Erased
      <4> QED BY <1>a, <2>2, <4>3, <4>4 DEF Part, Known, Saving
    <3>3. env'.data \in tried'
      BY <1>a, <2>2 DEF Known, Saving
    <3> QED BY <1>a, <1>1, <2>2, <3>1, <3>2, <3>3, Settled
  <2>3. Known'
    BY <1>a, <2>2, NoRoomier DEF Known, Sound
  <2> QED BY <1>a, <1>1, <1>2, <2>1, <2>3 DEF NandInv, Clearing
<1> QED BY <1>3, <1>4

\* The block of the loop is lost, and the save with it.
LEMMA NandHarm ==
  ASSUME NandInv, Erasing \/ Writing, flash' = [flash EXCEPT ![at] = Garbage], bad' = bad,
         valid' = valid, env' = env, at' = at, end' = end, done' = done, acked' = acked,
         tried' = tried, spoilt' = spoilt, pc' \in {"off", "idle"}
  PROVE  NandInv'
<1>a. Typed /\ Ranked /\ Clearing /\ Filling /\ Known /\ pc # "off"
  BY DEF NandInv, Erasing, Writing
<1>b. at \in Blocks /\ flash \in [Blocks -> {Erased, Garbage} \cup Pieces]
  BY <1>a, Apart, TypedFacts
<1>1. /\ flash'[at] \in {Erased, Garbage} /\ flash'[at] \notin Pieces
      /\ \A b \in Blocks : b # at => flash'[b] = flash[b]
  BY <1>b DEF Pieces, Garbage
<1>2. Typed'
  <2>1. flash' \in [Blocks -> {Erased, Garbage} \cup Pieces]
    BY <1>b
  <2> QED BY <1>a, <2>1, TypedFacts, TypedParts
<1>3. Ranked'
  BY <1>1, HarmedRanks
<1>4. ASSUME Sound PROVE Known'
  <2>1. Choice' = Spare' => Copy(Spare)'.data \in tried'
    BY <1>1, <1>2, <1>4, HarmedCopy
  <2>2. /\ CopyOk(valid)' <=> CopyOk(valid)
        /\ CopyOk(valid) => Copy(valid)' = Copy(valid)
    BY <1>1, <1>4, KeptCopy DEF Sound
  <2> QED BY <1>a, <1>2, <1>4, <2>1, <2>2, Settled DEF Saving
<1>5. Known'
  BY <1>a, <1>4, NoRoomier DEF Known, Sound
<1> QED BY <1>2, <1>3, <1>5 DEF NandInv, Clearing, Filling

LEMMA NandWriteFail == ASSUME NandInv, WriteFail PROVE NandInv'
<1>1. /\ Writing /\ flash' = [flash EXCEPT ![at] = Garbage] /\ bad' = bad /\ valid' = valid
      /\ env' = env /\ at' = at /\ end' = end /\ done' = done /\ acked' = acked /\ tried' = tried
      /\ spoilt' = spoilt /\ pc' = "idle"
  BY DEF WriteFail, loop, hist
<1> QED BY <1>1, NandHarm

LEMMA NandCut == ASSUME NandInv, Cut PROVE NandInv'
<1>a. /\ Typed /\ pc # "off" /\ bad' = bad /\ valid' = valid /\ env' = env /\ at' = at
      /\ end' = end /\ done' = done /\ acked' = acked /\ tried' = tried /\ spoilt' = spoilt
      /\ pc' = "off"
      /\ \/ flash' = flash
         \/ (Erasing \/ Writing) /\ flash' = [flash EXCEPT ![at] = Garbage]
  BY DEF NandInv, Cut, loop, hist
<1>1. CASE flash' = flash
  <2>1. Typed'
    BY <1>a, <1>1, TypedFacts, TypedParts
  <2>2. Ranked' /\ Known'
    BY <1>a, <1>1, <2>1, NandQuiet DEF Saving
  <2> QED BY <1>a, <2>1, <2>2 DEF NandInv, Clearing, Filling
<1>2. CASE (Erasing \/ Writing) /\ flash' = [flash EXCEPT ![at] = Garbage]
  <2>1. (Erasing \/ Writing) /\ pc' \in {"off", "idle"}
    BY <1>a, <1>2
  <2> QED BY <1>a, <1>2, <2>1, NandHarm
<1> QED BY <1>a, <1>1, <1>2

\* After its last block, the copy that a save has written is whole.
LEMMA WholeCopy ==
  ASSUME NandInv, pc = "write", done = Size, env.crc = env.data
  PROVE  CopyOk(Spare) /\ Copy(Spare) = env
<1>a. Typed /\ Filling /\ Spare \in {1, 2}
  BY Sides DEF NandInv
<1>p. \A i : Part(i, env).st = "part" /\ Part(i, env).k = i /\ Part(i, env).e = env
  BY DEF Part
<1>1. ASSUME NEW i \in 1 .. Size
      PROVE  \E b \in Good(Spare) : Before(Spare, b) = i - 1 /\ flash[b] = Part(i, env)
  <2>1. PICK b \in Good(Spare) : b < at /\ Before(Spare, b) = i - 1
    BY <1>a DEF Filling
  <2>2. flash[b] = Part(Before(Spare, b) + 1, env) /\ Before(Spare, b) + 1 = i
    BY <1>a, <2>1 DEF Filling
  <2> QED BY <2>1, <2>2
<1>2. Copy(Spare) = env
  <2>1. PICK b \in Good(Spare) : Before(Spare, b) = 0 /\ flash[b] = Part(1, env)
    <3>1. 1 \in 1 .. Size /\ 1 - 1 = 0
      BY Layout
    <3> QED BY <1>1, <3>1
  <2>2. \A c \in Good(Spare) : Before(Spare, c) = 0 => c = b
    BY <1>a, <2>1, BeforeUnique
  <2>3. (CHOOSE c \in Good(Spare) : Before(Spare, c) = 0) = b
    BY <2>1, <2>2
  <2>4. Copy(Spare) = flash[b].e
    BY <2>3 DEF Copy
  <2> QED BY <2>1, <2>4, <1>p
<1>3. CopyOk(Spare)
  <2>1. \A i \in 1 .. Size : \E b \in Good(Spare) :
          /\ Before(Spare, b) = i - 1
          /\ flash[b].st = "part" /\ flash[b].k = i /\ flash[b].e = env
    BY <1>1, <1>p
  <2> QED BY <1>2, <2>1 DEF CopyOk
<1> QED BY <1>2, <1>3

\* Of two copies that are both whole, the one a save has numbered after the
\* other, with no wrap jumped over, is the newer.
LEMMA AheadIsNewer ==
  ASSUME NEW e \in 0 .. 255, NEW f \in 0 .. 255, Ahead(e, f)
  PROVE  FirstIsNewer(e, f) /\ ~FirstIsNewer(f, e)
BY DEF Ahead, FirstIsNewer

\* The copy a save has written is the one that a boot would choose.
LEMMA SavedIsNewer ==
  ASSUME NandInv, pc = "write", done = Size, env.crc = env.data, ~Jumped
  PROVE  CopyOk(Spare) /\ Copy(Spare) = env /\ Choice # valid
<1>a. Typed
  BY DEF NandInv
<1>1. CopyOk(Spare) /\ Copy(Spare) = env
  BY WholeCopy
<1>2. Choice # valid
  <2> SUFFICES ASSUME Choice = valid PROVE FALSE
    OBVIOUS
  <2>1. CopyOk(valid)
    BY <1>a, Chosen
  <2>2. /\ env.flags \in 0 .. 255 /\ Copy(valid).flags \in 0 .. 255
        /\ Ahead(env.flags, Copy(valid).flags)
    BY <1>a, <2>1, Sides, Header, TypedFacts DEF Envs, Jumped
  <2>3. /\ FirstIsNewer(env.flags, Copy(valid).flags)
        /\ ~FirstIsNewer(Copy(valid).flags, env.flags)
    BY <2>2, AheadIsNewer
  <2>4. CASE valid = 1 /\ Spare = 2
    BY <1>1, <2>1, <2>3, <2>4 DEF Choice
  <2>5. CASE valid = 2 /\ Spare = 1
    BY <1>1, <2>1, <2>3, <2>5 DEF Choice
  <2> QED BY <1>a, <2>4, <2>5, Sides
<1> QED BY <1>1, <1>2

LEMMA NandSaveDone == ASSUME NandInv, SaveDone PROVE NandInv'
<1>a. /\ Typed /\ Known /\ Ranked /\ pc = "write" /\ pc' = "idle" /\ flash' = flash /\ bad' = bad
      /\ env' = env /\ at' = at /\ end' = end /\ done' = done
      /\ \/ done = Size /\ Saved
         \/ valid' = valid /\ acked' = acked /\ tried' = tried /\ spoilt' = spoilt
  BY DEF NandInv, SaveDone, loop, hist
<1>b. /\ \A n \in {1, 2} : /\ CopyOk(n)' <=> CopyOk(n)
                           /\ CopyOk(n) => Copy(n)' = Copy(n)
      /\ Choice' = Choice /\ Ranked'
  BY <1>a, SameDevice
<1>1. CASE valid' = valid /\ acked' = acked /\ tried' = tried /\ spoilt' = spoilt
  <2>1. Typed'
    BY <1>a, <1>1, TypedFacts, TypedParts
  <2>2. Known'
    BY <1>a, <1>1, <2>1, NandQuiet DEF Saving
  <2> QED BY <1>a, <1>b, <2>1, <2>2 DEF NandInv, Clearing, Filling
<1>2. CASE done = Size /\ Saved
  <2>a. /\ valid' = Spare /\ acked' = env.data /\ tried' = {}
        /\ spoilt' = (env.crc # env.data \/ Jumped)
    BY <1>2 DEF Saved, Spare
  <2>1. Typed'
    <3>1. env.data \in Contents /\ spoilt' \in BOOLEAN
      BY <1>a, <2>a, TypedFacts DEF Envs
    <3> QED BY <1>a, <2>a, <3>1, Sides, TypedFacts, TypedParts
  <2>2. ASSUME env.crc = env.data, ~Jumped
        PROVE  CopyOk(Spare) /\ Copy(Spare) = env /\ Choice # valid
    BY <1>a, <1>2, <2>2, SavedIsNewer
  <2>3. Known'
    <3> SUFFICES ASSUME env.crc = env.data, ~Jumped PROVE Known'
      BY <2>a DEF Known, Sound
    <3>1. /\ CopyOk(Spare) /\ Copy(Spare) = env /\ Choice # valid /\ Spare \in {1, 2}
          /\ Spare' = valid
      BY <1>a, <2>2, <2>a, Sides DEF Spare
    <3>2. /\ CopyOk(valid)' /\ Copy(valid)' = env /\ Choice' # Spare'
      BY <1>b, <2>a, <3>1
    <3> QED BY <1>a, <2>a, <3>2 DEF Known, Saving
  <2> QED BY <1>a, <1>b, <2>1, <2>3 DEF NandInv, Clearing, Filling
<1> QED BY <1>a, <1>1, <1>2

LEMMA NandStill == ASSUME NandInv, UNCHANGED vars PROVE NandInv'
<1>a. /\ Typed /\ Ranked /\ Clearing /\ Filling /\ Known /\ flash' = flash /\ bad' = bad
      /\ env' = env /\ valid' = valid /\ pc' = pc /\ at' = at /\ end' = end /\ done' = done
      /\ acked' = acked /\ tried' = tried /\ spoilt' = spoilt
  BY DEF NandInv, vars, loop, hist
<1>1. Typed'
  BY <1>a, TypedFacts, TypedParts
<1>b. /\ Choice' = Choice /\ Loads' = Loads /\ Ranked' /\ Spare' = Spare /\ Target' = Target
      /\ valid \in {1, 2} /\ Spare \in {1, 2} /\ (Choice = Spare => CopyOk(Spare))
      /\ \A n \in {1, 2} : /\ CopyOk(n)' <=> CopyOk(n)
                           /\ CopyOk(n) => Copy(n)' = Copy(n)
                           /\ Good(n)' = Good(n) /\ \A b : Before(n, b)' = Before(n, b)
  BY <1>a, SameDevice, Sides, Chosen DEF Spare, Target
<1>2. Clearing' /\ Filling'
  <2>1. Before(Spare, at)' = Before(Spare, at)
    BY <1>a, <1>b DEF Before
  <2>2. Below(Met, at)' = Below(Met, at) /\ Roomy' = Roomy
    BY <1>a DEF Below, Met, Target, Roomy
  <2>3. Clearing'
    BY <1>a, <1>b, <2>2 DEF Clearing
  <2>4. Filling'
    BY <1>a, <1>b, <2>1 DEF Filling
  <2> QED BY <2>3, <2>4
<1>3. Known'
  <2>1. Choice' = Spare' => Copy(Spare)' = Copy(Spare)
    BY <1>b
  <2>2. CopyOk(valid)' <=> CopyOk(valid)
    BY <1>a, <1>b
  <2>3. CopyOk(valid) => Copy(valid)' = Copy(valid)
    BY <1>a, <1>b
  <2>4. Sound' = Sound
    BY <1>a DEF Sound, Roomy
  <2> QED BY <1>a, <1>b, <2>1, <2>2, <2>3, <2>4 DEF Known, Saving
<1> QED BY <1>1, <1>b, <1>2, <1>3 DEF NandInv

LEMMA NandStep == ASSUME NandInv, Next PROVE NandInv'
<1>1. CASE Boot
  BY <1>1, NandBoot
<1>2. ASSUME NEW v \in Values, SetEnv(v) \/ SetTooLong(v) PROVE NandInv'
  BY <1>2, NandUser
<1>3. CASE SaveEnv
  BY <1>3, NandSaveEnv
<1>4. CASE EraseBlock
  BY <1>4, NandEraseBlock
<1>5. CASE EraseDone
  BY <1>5, NandEraseDone
<1>6. CASE WriteBlock
  BY <1>6, NandWriteBlock
<1>7. CASE WriteFail
  BY <1>7, NandWriteFail
<1>8. CASE SaveDone
  BY <1>8, NandSaveDone
<1>9. CASE Cut
  BY <1>9, NandCut
<1> QED BY <1>1, <1>2, <1>3, <1>4, <1>5, <1>6, <1>7, <1>8, <1>9 DEF Next, Step

\* After a boot or a save that succeeded the next save spares the copy chosen.
LEMMA NandSparesStep ==
  ASSUME NandInv, NandSpares, Next \/ UNCHANGED vars
  PROVE  NandSpares'
<1>a. Typed /\ (Saving => tried # {}) /\ SparesChosen
  BY DEF NandInv, NandSpares
<1>b. flash' = flash /\ bad' = bad => Choice' = Choice
  BY <1>a, SameDevice
<1>1. CASE Boot
  <2>1. /\ pc' = "idle" /\ flash' = flash /\ bad' = bad
        /\ valid' = IF Choice = 0 THEN 1 ELSE Choice
    BY <1>1 DEF Boot
  <2> QED BY <1>b, <2>1 DEF NandSpares, SparesChosen, Saving
<1>2. ASSUME NEW v \in Values, SetEnv(v) \/ SetTooLong(v) PROVE NandSpares'
  <2>1. /\ pc' = pc /\ pc = "idle" /\ flash' = flash /\ bad' = bad /\ valid' = valid
        /\ tried' = tried /\ spoilt' = spoilt
    BY <1>2 DEF SetEnv, SetTooLong, hist
  <2> QED BY <1>a, <1>b, <2>1 DEF NandSpares, SparesChosen, Saving
<1>3. CASE SaveEnv
  BY <1>3 DEF SaveEnv, NandSpares, SparesChosen, Saving
<1>4. CASE EraseBlock \/ EraseDone \/ WriteBlock \/ WriteFail \/ Cut
  <2>1. (tried' = tried /\ Saving) \/ pc' = "off"
    BY <1>4 DEF EraseBlock, EraseDone, WriteBlock, WriteFail, Cut, Erasing, Writing, Saving, hist
  <2>2. pc' = "off" \/ tried' # {}
    BY <1>a, <2>1
  <2> QED BY <2>2 DEF NandSpares, SparesChosen, Saving
<1>5. CASE SaveDone
  <2>1. /\ pc = "write" /\ pc' = "idle" /\ flash' = flash /\ bad' = bad
        /\ (done = Size /\ Saved) \/ tried' = tried
    BY <1>5 DEF SaveDone, hist
  <2>2. CASE tried' = tried
    BY <1>a, <2>1, <2>2 DEF NandSpares, SparesChosen, Saving
  <2>3. CASE done = Size /\ Saved
    <3>1. valid' = Spare /\ spoilt' = (env.crc # env.data \/ Jumped)
      BY <2>3 DEF Saved, Spare
    <3>2. ~spoilt' => Choice # valid
      BY <2>1, <2>3, <3>1, SavedIsNewer
    <3>3. Choice \in {0, valid, Spare}
      BY <1>a, Chosen
    <3> QED BY <1>b, <2>1, <3>1, <3>2, <3>3 DEF NandSpares, SparesChosen, Saving
  <2> QED BY <2>1, <2>2, <2>3
<1>6. CASE UNCHANGED vars
  <2>1. /\ pc' = pc /\ flash' = flash /\ bad' = bad /\ valid' = valid
        /\ tried' = tried /\ spoilt' = spoilt
    BY <1>6 DEF vars, hist
  <2> QED BY <1>a, <1>b, <2>1 DEF NandSpares, SparesChosen, Saving
<1> QED BY <1>1, <1>2, <1>3, <1>4, <1>5, <1>6 DEF Next, Step

\* What the runs check of it follows.
LEMMA NandPromises ==
  ASSUME NandInv
  PROVE  SavedIsFound /\ BackupWhole /\ TypeOK
<1>a. /\ Typed /\ Known
      /\ Choice \in {0, valid, Spare}
      /\ Choice = valid => CopyOk(valid)
      /\ Choice = 0 => ~CopyOk(valid)
      /\ Choice # 0 => Loads = Copy(Choice)
      /\ Choice = 0 => Loads.data = Default
  BY Chosen DEF NandInv
<1>1. SavedIsFound
  <2> SUFFICES ASSUME Sound PROVE Loads.data \in {acked} \cup tried
    BY DEF SavedIsFound, Sound
  <2>1. CASE pc = "off"
    BY <1>a, <2>1 DEF Known
  <2>2. CASE pc # "off"
    <3>1. CASE Choice = 0
      BY <1>a, <2>2, <3>1 DEF Known
    <3>2. CASE Choice = valid /\ Choice # 0
      BY <1>a, <2>2, <3>2 DEF Known
    <3>3. CASE Choice = Spare /\ Choice # 0
      BY <1>a, <2>2, <3>3 DEF Known
    <3> QED BY <1>a, <3>1, <3>2, <3>3
  <2> QED BY <2>1, <2>2
<1>2. BackupWhole
  BY <1>a DEF BackupWhole, Saving, Known, Sound
<1>3. TypeOK
  BY <1>a DEF Typed
<1> QED BY <1>1, <1>2, <1>3

(***************************************************************************)
(* The two builds.                                                         *)
(***************************************************************************)
LEMMA EnvInit == MCInit => IInv
<1>1. Init => NandSpares
  BY DEF Init, NandSpares, SparesChosen, Saving
<1> QED BY <1>1, NandInit, NorInit DEF MCInit, IInv

LEMMA EnvStep == IInv /\ [MCNext]_<<vars, kind, nor>> => IInv'
<1> SUFFICES ASSUME IInv, [MCNext]_<<vars, kind, nor>> PROVE IInv'
  OBVIOUS
<1>1. CASE UNCHANGED <<vars, kind, nor>>
  <2>1. UNCHANGED vars /\ kind' = kind /\ UNCHANGED <<nor, env, pc, hist>>
    BY <1>1 DEF vars
  <2> QED BY <2>1, NandStill, NandSparesStep, NorStill DEF IInv
<1>2. CASE MCNext
  <2>1. CASE kind = "nand" /\ Next
    <3>1. kind' = kind
      BY <1>2 DEF MCNext
    <3> QED BY <2>1, <3>1, NandStep, NandSparesStep DEF IInv
  <2>2. CASE kind = "nor" /\ Nor!Next
    <3>1. kind' = kind
      BY <1>2 DEF MCNext
    <3> QED BY <2>2, <3>1, NorStep DEF IInv
  <2> QED BY <1>2, <2>1, <2>2 DEF MCNext
<1> QED BY <1>1, <1>2

LEMMA EnvInv == MCSpec => []IInv
BY EnvInit, EnvStep, PTL DEF MCSpec

\* A boot finds what the last successful save saved, or what a save since then
\* was saving, on NAND and on NOR, after any number of saves, failures, bad
\* blocks and power losses (saveenv, env_relocate_spec).  Excepted are a spoilt
\* save, a first NAND area without room for its bad blocks (Roomy), and NOR flags
\* that do not say which copy is the newer (Undecided).
THEOREM SavesAreFound == MCSpec => []SaveIsFound
<1>1. IInv => SaveIsFound
  BY NandPromises, NorPromises DEF IInv, SaveIsFound
<1> QED BY <1>1, EnvInv, PTL

\* While a save erases and writes one copy, the other one is whole and holds
\* what was saved last (saveenv), but for spoilt saves and where the first NAND
\* area has no room for its bad blocks: then the erase reaches the second copy.
THEOREM BackupStays == MCSpec => []Backup
<1>1. IInv => Backup
  BY NandPromises, NorPromises DEF IInv, Backup
<1> QED BY <1>1, EnvInv, PTL

\* The copy that saveenv overwrites next is not the one a boot would choose, unless
\* the last save was spoilt or the NOR flags do not say which is the newer; and
\* the variables have their types.
THEOREM OtherIsWritten == MCSpec => []Spares
<1>1. IInv => Spares
  BY NandPromises, NorPromises DEF IInv, Spares, NandSpares
<1> QED BY <1>1, EnvInv, PTL

=============================================================================
