---------------------------- MODULE Upgrade_proofs ----------------------------
(***************************************************************************)
(* Proofs about Upgrade, for every image layout, table of keys, number of  *)
(* upgrades, failures and power losses: types, SucWhole when the status    *)
(* partition comes before the UBI partition, PitReadable, KeysSafe and     *)
(* FeBackupLast.                                                           *)
(***************************************************************************)
EXTENDS Upgrade, SequenceTheorems, TLAPS

Phases == {"backup", "adapt", "prepare", "mark", "pits", "bins", "restore", "done",
           "fe_plan", "fe_mark", "fe", "fe_done", "ok", "fail", "off"}
FePhases == {"fe_plan", "fe_mark", "fe", "fe_done"}
Commands == {"none", "be", "be all", "bl", "fe"}
Content == [s : {"erased", "torn", "data", "none", "BE", "FE", "SUC"}, v : Nat,
            sel : SUBSET Targets]

Typed ==
  /\ flash \in [Targets -> Content]
  /\ ses \in [same : BOOLEAN, bootOnly : BOOLEAN, keys : [Range(Keys) -> Content],
              tbl : BOOLEAN, img : Images \cup {-1, 0}]
  /\ up \in [cmd : Commands, img : Images \cup {0}, usb : Images \cup {0},
             phase : Phases, todo : Seq(Targets), open : BOOLEAN,
             creat : BOOLEAN, table : Nat]
  /\ hist \in [upg : Nat, cut : 0 .. MaxCut, fail : 0 .. MaxFail, pit : Nat]

\* What the targets and the copies of the keys may hold.
Held ==
  /\ \A t \in Targets : flash[t].s \in {"erased", "torn"}
       \cup (IF t \in Stats THEN {"BE", "FE", "SUC"} ELSE {"data"})
  /\ \A t \in Targets : flash[t].s = "erased" => flash[t] = Erased
  /\ \A t \in Pits \cup Adpts : flash[t].s = "data" => flash[t].v # 0
  /\ \A k \in Range(Keys) : /\ ses.keys[k].s \in {"none", "erased", "torn", "data"}
                            /\ ses.keys[k].s = "erased" => ses.keys[k] = Erased

\* The targets of each phase.
Reach(ph) ==
  CASE ph \in {"backup", "restore"} -> Range(Keys)
    [] ph = "adapt" -> Adpts
    [] ph = "prepare" -> Stats \cup Range(Volumes)
    [] ph \in {"mark", "done", "fe_mark", "fe_done"} -> Stats
    [] ph = "pits" -> Pits
    [] ph = "bins" -> Parts
    [] ph = "fe" -> FeParts \cup {"fe_test_data"}
    [] OTHER -> {}

Working ==
  /\ Range(up.todo) \subseteq Reach(up.phase)
  /\ up.open => up.todo # <<>> /\ Wanted(Target)
  /\ ~Idle => up.img \in Images /\ (up.cmd = "fe" <=> up.phase \in FePhases)

TInv == Typed /\ Held /\ Working

Left == Range(up.todo)
Suc(t) == flash[t].s = "SUC"

\* While parts are erased or written no status copy says SUC.
Marked ==
  /\ up.phase = "prepare" =>
       \/ up.todo = StatusCopies \o Volumes
       \/ up.todo = <<"st2">> \o Volumes /\ ~Suc("st1")
       \/ Left \subseteq Range(Volumes) /\ (Left # {} => ~Suc("st1") /\ ~Suc("st2"))
  /\ up.phase \in {"mark", "fe_mark"} => \A t \in Stats : Suc(t) => t \in Left
  /\ up.phase \in {"pits", "bins", "restore", "fe"} => ~Suc("st1") /\ ~Suc("st2")

\* What has been written and not left to write is whole.
Whole ==
  /\ up.phase = "bins" => \A p \in SelectedSet : p \in Left \/ flash[p] = Data(up.img)
  /\ up.phase \in {"restore", "done"} => \A p \in SelectedSet : flash[p] = Data(up.img)
  /\ up.phase = "fe" => "fe_bin_1" \in Left \/ flash["fe_bin_1"] = Data(up.img)
  /\ up.phase = "fe_done" => flash["fe_bin_1"] = Data(up.img)

\* What a status copy vouches for.
Vouched == \A t \in Stats : Suc(t) => flash[t].sel \subseteq Parts \cup {"fe_bin_1"}

SInv == Marked /\ Whole /\ Vouched /\ SucWhole

\* Each copy of the PIT that is not readable was interrupted, or is open.
Lost(c) == flash[c].s # "data"
PInv ==
  /\ Lost("pit1") \/ Lost("pit2") => Hit(hist.pit) >= 1
  /\ Lost("pit1") /\ Lost("pit2") => Hit(hist.pit) >= 2
  /\ up.open /\ Target \in Pits => Lost(Target)

\* As long as nothing fails, where each key is.
Here(k) == flash[k].s = "data"
Safe(k) == ses.keys[k].s = "data"
Opened(k) == up.open /\ Target = k
KeyInv(k) ==
  /\ ses.keys[k].s \in {"none", "data"}
  /\ Here(k) \/ (Safe(k) /\ up.creat)
  /\ up.phase = "backup" /\ Opened(k) => Safe(k)
  /\ up.phase = "backup" /\ k \in Left => Here(k) \/ Opened(k)
  /\ up.phase = "restore" => Here(k) \/ k \in Left
  /\ Idle \/ up.phase \in {"done"} \cup FePhases => Here(k)

KInv ==
  hist.cut = 0 /\ hist.fail = 0 =>
    /\ \A a \in Adpts : Here(a) \/ Opened(a)
    /\ up.phase = "backup" => \A i, j \in 1 .. Len(up.todo) : up.todo[i] = up.todo[j] => i = j
    /\ up.phase \in {"backup", "restore"} /\ up.todo # <<>> => up.creat
    /\ \A k \in Range(Keys) \ FeParts : KeyInv(k)

\* The order of an FE upgrade.
FInv ==
  up.phase = "fe" =>
    /\ up.todo \in {<<"fe_bin_1", "fe_bin_2", "fe_test_data">>, <<"fe_bin_1", "fe_test_data">>,
                    <<"fe_bin_2", "fe_test_data">>, <<"fe_test_data">>, <<>>}
    /\ "fe_bin_1" \in Left \/ flash["fe_bin_1"] = Data(up.img)
    /\ "fe_bin_2" \in Left /\ ~Opened("fe_bin_2") => flash["fe_bin_2"] = Erased

-----------------------------------------------------------------------------
(* Facts about sequences and names.                                        *)

\* The range of a tail, as the set of its elements.
LEMMA RangeOfTail ==
  ASSUME NEW S, NEW s \in Seq(S), s # <<>>
  PROVE  Range(Tail(s)) = {Tail(s)[i] : i \in 1 .. Len(Tail(s))}
<1>1. Tail(s) \in Seq(S)
  BY HeadTailProperties
<1>. QED  BY <1>1, RangeEquality

\* The elements of a sequence are its head and those of its tail.
LEMMA RangeTail ==
  ASSUME NEW S, NEW s \in Seq(S), s # <<>>
  PROVE  /\ Tail(s) \in Seq(S) /\ Head(s) \in S
         /\ Range(s) = {Head(s)} \cup Range(Tail(s))
<1>1. Range(s) = {s[i] : i \in 1 .. Len(s)}
  BY RangeEquality
<1>2. /\ Tail(s) \in Seq(S) /\ Head(s) \in S /\ Len(Tail(s)) = Len(s) - 1
      /\ \A i \in 1 .. Len(Tail(s)) : Tail(s)[i] = s[i + 1]
  BY HeadTailProperties
<1>3. Range(Tail(s)) = {Tail(s)[i] : i \in 1 .. Len(Tail(s))}
  BY RangeOfTail
<1>4. Head(s) = s[1] /\ Len(s) \in Nat /\ Len(s) >= 1
  BY EmptySeq, LenProperties
<1>5. \A x : x \in Range(s) <=> \E i \in 1 .. Len(s) : x = s[i]
  BY <1>1
<1>6. \A x : x \in Range(Tail(s)) <=> \E i \in 1 .. Len(s) - 1 : x = s[i + 1]
  BY <1>2, <1>3
<1>7. \A x : (\E i \in 1 .. Len(s) : x = s[i])
               <=> (x = s[1] \/ \E i \in 1 .. Len(s) - 1 : x = s[i + 1])
  <2>1. \A i \in 1 .. Len(s) : i = 1 \/ (i - 1 \in 1 .. Len(s) - 1 /\ i = (i - 1) + 1)
    BY <1>4
  <2>2. \A i \in 1 .. Len(s) - 1 : i + 1 \in 1 .. Len(s)
    BY <1>4
  <2>3. 1 \in 1 .. Len(s)
    BY <1>4
  <2>. QED  BY <2>1, <2>2, <2>3
<1>. QED  BY <1>2, <1>4, <1>5, <1>6, <1>7

\* A sequence without repetitions has its head only there, and so its tail.
LEMMA Injective ==
  ASSUME NEW S, NEW s \in Seq(S), s # <<>>,
         \A i, j \in 1 .. Len(s) : s[i] = s[j] => i = j
  PROVE  /\ Head(s) \notin Range(Tail(s))
         /\ \A i, j \in 1 .. Len(Tail(s)) : Tail(s)[i] = Tail(s)[j] => i = j
<1>1. /\ Tail(s) \in Seq(S) /\ Len(Tail(s)) = Len(s) - 1
      /\ \A i \in 1 .. Len(Tail(s)) : Tail(s)[i] = s[i + 1]
  BY HeadTailProperties
<1>2. Head(s) = s[1] /\ Len(s) \in Nat /\ Len(s) >= 1
  BY EmptySeq, LenProperties
<1>3. Range(Tail(s)) = {Tail(s)[i] : i \in 1 .. Len(Tail(s))}
  BY RangeOfTail, Zenon
<1>4. \A i \in 1 .. Len(s) - 1 : i + 1 \in 1 .. Len(s) /\ i + 1 # 1
  BY <1>2
<1>5. 1 \in 1 .. Len(s)
  BY <1>2
<1>6. Head(s) \notin Range(Tail(s))
  BY <1>1, <1>2, <1>3, <1>4, <1>5
<1>7. ASSUME NEW i \in 1 .. Len(s) - 1, NEW j \in 1 .. Len(s) - 1, Tail(s)[i] = Tail(s)[j]
      PROVE  i = j
  <2>1. s[i + 1] = s[j + 1]
    BY <1>1, <1>7
  <2>2. i + 1 = j + 1
    BY <2>1, <1>4
  <2>. QED  BY <2>2
<1>. QED  BY <1>1, <1>6, <1>7

\* The empty sequence has no elements.
LEMMA RangeEmpty == Range(<<>>) = {} /\ \A S : <<>> \in Seq(S)
BY DEF Range

\* The sequences of the phases hold targets, and the names do not clash.
LEMMA Names ==
  /\ Bins \in Seq(Targets) /\ Volumes \in Seq(Targets) /\ Keys \in Seq(Targets)
  /\ StatusCopies \in Seq(Targets) /\ Range(StatusCopies) = Stats
  /\ Range(Bins) = Parts /\ Range(Volumes) \subseteq Parts
  /\ Parts \cap Range(Keys) = {} /\ Parts \cap Others = {}
  /\ Range(Keys) \cap Others \subseteq FeParts
  /\ Targets = Parts \cup Range(Keys) \cup Others
<1>1. Range(Volumes) \subseteq Parts
  BY ImageAssumption, RangeOfSeq
<1>2. \A S, T : S \subseteq T => Seq(S) \subseteq Seq(T)
  BY SeqMonotonic
<1>3. Range(StatusCopies) = Stats
  BY DEF StatusCopies, Stats, Range
<1>4. StatusCopies \in Seq(Targets)
  BY DEF StatusCopies, Targets, Others, Stats
<1>. QED  BY <1>1, <1>2, <1>3, <1>4, ImageAssumption DEF Targets

\* An image has a PIT.
LEMMA ImagePit == \A i \in Images : PitOf[i] \in Nat \ {0}
BY ImageAssumption, LenProperties DEF Images

-----------------------------------------------------------------------------
(* The target under way and what is written to it.                         *)

\* While targets are left, the first one belongs to the phase under way.
LEMMA TargetFacts ==
  ASSUME TInv, up.todo # <<>>
  PROVE  /\ Target \in Targets /\ Target \in Reach(up.phase) /\ Target \in Left
         /\ Tail(up.todo) \in Seq(Targets) /\ Left = {Target} \cup Range(Tail(up.todo))
         /\ ~Idle /\ up.img \in Images
<1>1. up.todo \in Seq(Targets)
  BY DEF TInv, Typed
<1>2. /\ Target \in Targets /\ Target \in Left
      /\ Tail(up.todo) \in Seq(Targets) /\ Left = {Target} \cup Range(Tail(up.todo))
  BY <1>1, RangeTail DEF Target, Left
<1>3. Target \in Reach(up.phase)
  BY <1>2 DEF TInv, Working, Left
<1>4. ~Idle
  BY <1>3 DEF Idle, Reach
<1>. QED  BY <1>2, <1>3, <1>4 DEF TInv, Working

\* Which phase works on what.
LEMMA ReachFacts ==
  ASSUME NEW ph \in Phases, NEW t \in Reach(ph)
  PROVE  /\ t \in Stats => ph \in {"prepare", "mark", "done", "fe_mark", "fe_done"}
         /\ t \in Parts => ph \in {"prepare", "bins"}
         /\ t \in Pits => ph = "pits"
         /\ t \in Adpts => ph = "adapt"
         /\ t \in Range(Keys) \ FeParts => ph \in {"backup", "restore"}
         /\ t \in FeParts => ph \in {"backup", "restore", "fe"}
         /\ ph \in {"mark", "done", "fe_mark", "fe_done"} => t \in Stats
         /\ ph = "pits" => t \in Pits
         /\ ph = "adapt" => t \in Adpts
         /\ ph = "bins" => t \in Parts
         /\ ph \in {"backup", "restore"} => t \in Range(Keys)
         /\ ph = "fe" => t \in FeParts \cup {"fe_test_data"}
         /\ ph = "prepare" => t \in Stats \cup Range(Volumes)
BY Names DEF Reach, Others, FeParts, Stats, Pits, Adpts, Phases

\* A target is first erased or torn.
LEMMA BegunFacts == Begun \subseteq {Erased, Torn}
BY DEF Begun

\* What it holds in the end.
LEMMA ValueFacts ==
  ASSUME TInv, up.todo # <<>>, Wanted(Target)
  PROVE  /\ Value(Target) \in Content
         /\ Value(Target).s \in {"erased", "torn"}
              \cup (IF Target \in Stats THEN {"BE", "FE", "SUC"} ELSE {"data"})
         /\ Value(Target).s = "erased" => Value(Target) = Erased
         /\ up.phase \in {"adapt", "pits"} => Value(Target) = Data(PitOf[up.img])
         /\ up.phase = "bins" \/ (up.phase = "fe" /\ Target # "fe_test_data")
              => Value(Target) = Data(up.img)
         /\ up.phase = "restore" => Value(Target) = ses.keys[Target]
         /\ up.phase \in {"backup", "prepare"} => Value(Target) = Erased
         /\ up.phase \in {"mark", "fe_mark"} => Value(Target).s # "SUC"
         /\ up.phase = "done" => Value(Target) = Is("SUC", up.img, SelectedSet)
         /\ up.phase = "fe_done" => Value(Target) = Is("SUC", up.img, {"fe_bin_1"})
<1>1. /\ Target \in Targets /\ Target \in Reach(up.phase) /\ ~Idle
      /\ up.img \in Images /\ up.phase \in Phases
  BY TargetFacts DEF TInv, Typed
<1>2. up.img \in Nat /\ PitOf[up.img] \in Nat
  BY <1>1, ImagePit, ImageAssumption, LenProperties DEF Images
<1>3. SelectedSet \in SUBSET Targets /\ {"fe_bin_1"} \in SUBSET Targets
  BY Names DEF SelectedSet, Others, FeParts
<1>4. /\ Erased \in Content /\ Data(up.img) \in Content /\ Data(PitOf[up.img]) \in Content
      /\ Mark \in Content
  BY <1>2, <1>3 DEF Erased, Data, Is, Content, Mark
<1>5. CASE up.phase \in {"mark", "fe_mark", "done", "fe_done"}
  <2>1. Target \in Stats
    BY <1>1, <1>5, ReachFacts
  <2>2. Value(Target) = Mark
    BY <1>5 DEF Value
  <2>3. Mark.s \in {"BE", "FE", "SUC"} /\ (up.phase \in {"mark", "fe_mark"} => Mark.s # "SUC")
    BY <1>5 DEF Mark, Is
  <2>. QED  BY <1>4, <1>5, <2>1, <2>2, <2>3 DEF Mark, Is
<1>6. CASE up.phase \in {"adapt", "pits"}
  <2>1. Value(Target) = Data(PitOf[up.img]) /\ Target \notin Stats
    BY <1>1, <1>6, ReachFacts DEF Value
  <2>. QED  BY <1>4, <1>6, <2>1 DEF Data, Is
<1>7. CASE up.phase = "restore"
  <2>1. Value(Target) = ses.keys[Target] /\ Target \in Range(Keys) /\ Target \notin Stats
    BY <1>1, <1>7, ReachFacts DEF Value
  <2>2. ses.keys[Target].s # "none"
    BY <1>7 DEF Wanted
  <2>. QED  BY <1>7, <2>1, <2>2 DEF TInv, Typed, Held
<1>8. CASE up.phase \in {"backup", "prepare"}
  <2>1. Value(Target) = Erased
    BY <1>8 DEF Value
  <2>. QED  BY <1>4, <1>8, <2>1 DEF Erased, Is
<1>9. CASE up.phase \in {"bins", "fe", "fe_plan"}
  <2>1. Target \notin Stats
    BY <1>1, <1>9, ReachFacts
  <2>2. Value(Target) = IF up.phase = "fe" /\ Target = "fe_test_data" THEN Erased
                        ELSE Data(up.img)
    BY <1>9 DEF Value
  <2>. QED  BY <1>4, <1>9, <2>1, <2>2 DEF Erased, Data, Is
<1>. QED  BY <1>1, <1>5, <1>6, <1>7, <1>8, <1>9 DEF Idle, Phases

\* The work of a phase, as it begins.
LEMMA WorkFacts ==
  ASSUME NEW ph \in Phases
  PROVE  Work(ph) \in Seq(Targets) /\ Range(Work(ph)) \subseteq Reach(ph)
<1>1. /\ <<"adpt1", "adpt2">> \in Seq(Targets) /\ Range(<<"adpt1", "adpt2">>) = Adpts
      /\ <<"pit1", "pit2">> \in Seq(Targets) /\ Range(<<"pit1", "pit2">>) = Pits
      /\ <<"pit1">> \in Seq(Targets) /\ Range(<<"pit1">>) \subseteq Pits
  BY Names DEF Others, Adpts, Pits, Range
<1>2. FeWork \in Seq(Targets) /\ Range(FeWork) \subseteq FeParts \cup {"fe_test_data"}
  <2>1. FeWork \in {<<"fe_bin_1", "fe_bin_2", "fe_test_data">>, <<"fe_bin_1", "fe_test_data">>}
    BY DEF FeWork
  <2>2. /\ <<"fe_bin_1", "fe_bin_2", "fe_test_data">> \in Seq(Targets)
        /\ <<"fe_bin_1", "fe_test_data">> \in Seq(Targets)
    BY Names DEF Others, FeParts
  <2>3. /\ Range(<<"fe_bin_1", "fe_bin_2", "fe_test_data">>) = {"fe_bin_1", "fe_bin_2", "fe_test_data"}
        /\ Range(<<"fe_bin_1", "fe_test_data">>) = {"fe_bin_1", "fe_test_data"}
    BY DEF Range
  <2>. QED  BY <2>1, <2>2, <2>3 DEF FeParts
<1>3. /\ StatusCopies \o Volumes \in Seq(Targets) /\ Volumes \o StatusCopies \in Seq(Targets)
      /\ Range(StatusCopies \o Volumes) = Stats \cup Range(Volumes)
      /\ Range(Volumes \o StatusCopies) = Stats \cup Range(Volumes)
  <2>1. StatusCopies \o Volumes \in Seq(Targets) /\ Volumes \o StatusCopies \in Seq(Targets)
    BY Names, ConcatProperties
  <2>2. Range(StatusCopies \o Volumes) = Range(StatusCopies) \cup Range(Volumes)
    BY Names, RangeConcatenation
  <2>3. Range(Volumes \o StatusCopies) = Range(Volumes) \cup Range(StatusCopies)
    BY Names, RangeConcatenation
  <2>. QED  BY <2>1, <2>2, <2>3, Names
<1>. QED  BY <1>1, <1>2, <1>3, Names, RangeEmpty DEF Work, Reach, Phases

\* Which PIT and which adaptive PIT are found.
LEMMA FoundFacts ==
  ASSUME TInv, NEW a \in Targets, NEW b \in Targets
  PROVE  /\ Found(<<a, b>>) \in Nat
         /\ a \in Pits \cup Adpts /\ b \in Pits \cup Adpts =>
              (Found(<<a, b>>) # 0 <=> flash[a].s = "data" \/ flash[b].s = "data")
<1>1. flash[a].v \in Nat /\ flash[b].v \in Nat
  BY DEF TInv, Typed, Content
<1>. QED  BY <1>1 DEF Found, TInv, Held

-----------------------------------------------------------------------------
(* Types.                                                                  *)

\* A device as it was made has the types.
LEMMA InitTyped == Init => TInv
<1>. SUFFICES ASSUME Init PROVE TInv
  OBVIOUS
<1>. USE Names
<1>1. \A p \in SUBSET Targets : \A v \in {0, 1} : Data(v) \in Content /\ Is("SUC", v, p) \in Content
  BY DEF Data, Is, Content
<1>2. Erased \in Content /\ Parts \in SUBSET Targets /\ Is("none", 0, {}) \in Content
  BY DEF Erased, Is, Content
<1>3. PICK bak \in {Erased, Data(0)} :
        flash = [t \in Targets |->
          CASE t \in Pits \cup Adpts -> Data(1)
            [] t \in Stats -> Is("SUC", 0, Parts)
            [] t = "fe_bin_2" -> bak
            [] OTHER -> Data(0)]
  BY DEF Init
<1>4. \A t \in Targets :
        /\ t \in Pits \cup Adpts => flash[t] = Data(1)
        /\ t \in Stats => flash[t] = Is("SUC", 0, Parts)
        /\ t \notin Pits \cup Adpts \cup Stats => flash[t] \in {Erased, Data(0)}
  BY <1>3 DEF Pits, Adpts, Stats
<1>5. flash \in [Targets -> Content]
  <2>1. DOMAIN flash = Targets /\ flash = [t \in Targets |-> flash[t]]
    BY <1>3
  <2>2. \A t \in Targets : flash[t] \in Content
    BY <1>1, <1>2, <1>4
  <2>. QED  BY <2>1, <2>2
<1>6. Held
  <2>1. Stats \cap (Pits \cup Adpts) = {} /\ Pits \cup Adpts \subseteq Targets
    BY DEF Stats, Pits, Adpts, Others
  <2>2. /\ \A t \in Targets : flash[t].s \in {"erased", "torn"}
              \cup (IF t \in Stats THEN {"BE", "FE", "SUC"} ELSE {"data"})
        /\ \A t \in Targets : flash[t].s = "erased" => flash[t] = Erased
        /\ \A t \in Pits \cup Adpts : flash[t].s = "data" => flash[t].v # 0
    <3>1. ASSUME NEW t \in Targets
          PROVE  /\ flash[t].s \in {"erased", "torn"}
                       \cup (IF t \in Stats THEN {"BE", "FE", "SUC"} ELSE {"data"})
                 /\ flash[t].s = "erased" => flash[t] = Erased
      <4>1. CASE t \in Stats
        BY <1>4, <2>1, <4>1 DEF Is
      <4>2. CASE t \notin Stats
        <5>1. flash[t] \in {Erased, Data(0), Data(1)}
          BY <1>4, <4>2
        <5>2. Erased.s = "erased" /\ Data(0).s = "data" /\ Data(1).s = "data"
          BY DEF Erased, Data, Is
        <5>. QED  BY <4>2, <5>1, <5>2
      <4>. QED  BY <4>1, <4>2
    <3>2. \A t \in Pits \cup Adpts : flash[t].v # 0
      BY <1>4, <2>1 DEF Data, Is
    <3>. QED  BY <3>1, <3>2
  <2>3. \A k \in Range(Keys) : ses.keys[k].s = "none"
    BY DEF Init, FreshSession, NoKeys, Is
  <2>. QED  BY <2>2, <2>3 DEF Held
<1>7. Typed
  BY <1>2, <1>5, ImageAssumption, RangeEmpty
     DEF Init, Typed, FreshSession, NoKeys, NoUpgrade, Commands, Phases
<1>8. Working
  BY RangeEmpty DEF Init, Working, NoUpgrade, Reach, Idle
<1>. QED  BY <1>6, <1>7, <1>8 DEF TInv

\* One more upgrade is counted.
LEMMA CountFacts ==
  ASSUME TInv, hist' = [hist EXCEPT !.upg = @ + 1]
  PROVE  /\ hist' \in [upg : Nat, cut : 0 .. MaxCut, fail : 0 .. MaxFail, pit : Nat]
         /\ hist'.cut = hist.cut /\ hist'.fail = hist.fail /\ hist'.pit = hist.pit
BY DEF TInv, Typed

\* An upgrade that begins, and the session's variables with the keys as they were.
LEMMA BeginsTyped ==
  ASSUME TInv, NEW c \in {"be", "be all", "bl", "fe"}, NEW i \in Images, NEW img \in Images,
         NEW ph \in {"fail", "backup", "fe_plan"}, NEW cr \in BOOLEAN,
         Begins(c, i, img, ph, cr), ph # "fail" => (c = "fe" <=> ph = "fe_plan"),
         ses' \in [same : BOOLEAN, bootOnly : BOOLEAN, keys : [Range(Keys) -> Content],
                   tbl : BOOLEAN, img : Images \cup {-1, 0}],
         ses'.keys = ses.keys
  PROVE  TInv'
<1>1. c \in Commands /\ ph \in Phases
  BY DEF Commands, Phases
<1>2. /\ UNCHANGED flash
      /\ up' \in [cmd : Commands, img : Images \cup {0}, usb : Images \cup {0},
                 phase : Phases, todo : Seq(Targets), open : BOOLEAN,
                 creat : BOOLEAN, table : Nat]
      /\ up'.cmd = c /\ up'.img = img /\ up'.phase = ph /\ up'.open = FALSE
      /\ up'.todo = <<>> \/ (ph = "backup" /\ up'.todo = Keys)
      /\ hist' \in [upg : Nat, cut : 0 .. MaxCut, fail : 0 .. MaxFail, pit : Nat]
  <2>1. /\ up' = [cmd |-> c, img |-> img, usb |-> i, phase |-> ph, open |-> FALSE,
                  creat |-> cr, table |-> 0,
                  todo |-> IF ph = "backup" /\ cr /\ ses.tbl THEN Keys ELSE <<>>]
        /\ hist' = [hist EXCEPT !.upg = @ + 1]
        /\ UNCHANGED flash
    BY DEF Begins
  <2>2. (IF ph = "backup" /\ cr /\ ses.tbl THEN Keys ELSE <<>>) \in Seq(Targets)
    BY Names, RangeEmpty
  <2>3. hist' \in [upg : Nat, cut : 0 .. MaxCut, fail : 0 .. MaxFail, pit : Nat]
    <3>1. hist' = [hist EXCEPT !.upg = @ + 1]
      BY <2>1
    <3>. QED  BY <3>1, CountFacts
  <2>4. up'.cmd = c /\ up'.img = img /\ up'.phase = ph /\ up'.open = FALSE
    BY <2>1
  <2>5. up'.todo = <<>> \/ (ph = "backup" /\ up'.todo = Keys)
    BY <2>1
  <2>6. up' \in [cmd : Commands, img : Images \cup {0}, usb : Images \cup {0},
                 phase : Phases, todo : Seq(Targets), open : BOOLEAN,
                 creat : BOOLEAN, table : Nat]
    BY <1>1, <2>1, <2>2
  <2>. QED  BY <2>1, <2>3, <2>4, <2>5, <2>6
<1>4. Typed'
  BY <1>2 DEF TInv, Typed
<1>5. Held'
  BY <1>2 DEF TInv, Held
<1>6. Range(up'.todo) \subseteq Reach(ph)
  BY <1>2, RangeEmpty DEF Reach
<1>7. ~Idle' => up'.img \in Images /\ (up'.cmd = "fe" <=> up'.phase \in FePhases)
  BY <1>2 DEF Idle, FePhases
<1>8. Working'
  BY <1>2, <1>6, <1>7 DEF Working, Idle, Reach
<1>. QED  BY <1>4, <1>5, <1>8 DEF TInv

\* The start of an upgrade keeps the types.
LEMMA StartTyped ==
  ASSUME TInv, NEW c \in {"be", "be all", "bl", "fe"}, NEW i \in Images, Start(c, i)
  PROVE  TInv'
<1>1. PICK n \in Images \cup {-1, 0}, sm \in BOOLEAN, bo \in BOOLEAN :
        ses' = [ses EXCEPT !.img = n, !.same = sm, !.bootOnly = bo]
  <2>0. ses.bootOnly \in BOOLEAN /\ ses.same \in BOOLEAN /\ ses.img \in Images \cup {-1, 0}
    BY DEF TInv, Typed
  <2>1. CASE c = "fe"
    <3>1. PICK n \in {0, -1} : ses' = [ses EXCEPT !.img = n]
      BY <2>1 DEF Start, StartFE
    <3>2. ses' = [ses EXCEPT !.img = n, !.same = ses.same, !.bootOnly = ses.bootOnly]
      BY <3>1 DEF TInv, Typed
    <3>. QED  BY <2>0, <3>1, <3>2
  <2>2. CASE c # "fe" /\ StartWithFE(c, i)
    <3>1. ses' = [ses EXCEPT !.img = 0, !.bootOnly = @ \/ c = "bl"]
      BY <2>2 DEF StartWithFE
    <3>2. PICK bo \in BOOLEAN : bo = (ses.bootOnly \/ c = "bl")
      OBVIOUS
    <3>3. ses' = [ses EXCEPT !.img = 0, !.same = ses.same, !.bootOnly = bo]
      BY <3>1, <3>2 DEF TInv, Typed
    <3>. QED  BY <2>0, <3>3
  <2>3. CASE c # "fe" /\ StartBE(c, i)
    <3>. DEFINE img == IF ses.img = 0 THEN i ELSE ses.img
                creat == FoundPit # PitOf[img]
    <3>1. /\ ses' = [ses EXCEPT !.img = img, !.same = ses.same \/ ~creat,
                               !.bootOnly = ses.bootOnly \/ c = "bl"]
          /\ ses.img # -1
      BY <2>3 DEF StartBE
    <3>2. img \in Images \cup {-1, 0}
      BY <2>0
    <3>. HIDE DEF img, creat
    <3>. QED  BY <2>0, <3>1, <3>2, Zenon
  <2>. QED  BY <2>1, <2>2, <2>3 DEF Start
<1>2. /\ ses' \in [same : BOOLEAN, bootOnly : BOOLEAN, keys : [Range(Keys) -> Content],
                   tbl : BOOLEAN, img : Images \cup {-1, 0}]
      /\ ses'.keys = ses.keys
  BY <1>1 DEF TInv, Typed
<1>3. CASE c = "fe"
  <2>1. PICK ph \in {"fail", "fe_plan"} : Begins(c, i, i, ph, FALSE)
    BY <1>3 DEF Start, StartFE
  <2>. QED  BY <1>2, <1>3, <2>1, BeginsTyped
<1>4. CASE c # "fe" /\ StartWithFE(c, i)
  <2>1. Begins(c, i, i, "fail", FALSE)
    BY <1>4 DEF StartWithFE
  <2>. QED  BY <1>2, <2>1, BeginsTyped
<1>5. CASE c # "fe" /\ StartBE(c, i)
  <2>. DEFINE img == IF ses.img = 0 THEN i ELSE ses.img
              creat == FoundPit # PitOf[img]
  <2>1. Begins(c, i, img, "backup", creat) /\ ses.img # -1
    BY <1>5 DEF StartBE
  <2>2. img \in Images /\ creat \in BOOLEAN
    BY <2>1 DEF TInv, Typed
  <2>. HIDE DEF img, creat
  <2>3. "backup" # "fail" => (c = "fe" <=> "backup" = "fe_plan")
    BY <1>5
  <2>. QED  BY <1>2, <2>1, <2>2, <2>3, BeginsTyped
<1>. QED  BY <1>3, <1>4, <1>5 DEF Start

\* What follows each phase.
LEMMA FollowsFacts ==
  ASSUME TInv, ~Idle
  PROVE  /\ Follows[up.phase] \in Phases \ {"backup", "fail", "off", "fe_plan"}
         /\ Follows[up.phase] = "adapt" <=> up.phase = "backup"
         /\ Follows[up.phase] = "prepare" <=> up.phase = "adapt"
         /\ Follows[up.phase] = "mark" <=> up.phase = "prepare"
         /\ Follows[up.phase] = "pits" <=> up.phase = "mark"
         /\ Follows[up.phase] = "bins" <=> up.phase = "pits"
         /\ Follows[up.phase] = "restore" <=> up.phase = "bins"
         /\ Follows[up.phase] = "done" <=> up.phase = "restore"
         /\ Follows[up.phase] = "fe_mark" <=> up.phase = "fe_plan"
         /\ Follows[up.phase] = "fe" <=> up.phase = "fe_mark"
         /\ Follows[up.phase] = "fe_done" <=> up.phase = "fe"
         /\ Follows[up.phase] = "ok" <=> up.phase \in {"done", "fe_done"}
<1>1. up.phase \in Phases \ {"ok", "fail", "off"}
  BY DEF TInv, Typed, Idle
<1>. QED  BY <1>1 DEF Follows, Phases

\* A phase begins with its work, or the upgrade fails without an adaptive PIT.
LEMMA ProceedFacts ==
  ASSUME TInv, Proceed
  PROVE  /\ ~Idle /\ up.todo = <<>> /\ ~up.open /\ UNCHANGED <<flash, hist>>
         /\ up'.cmd = up.cmd /\ up'.img = up.img /\ up'.creat = up.creat /\ up'.open = FALSE
         /\ \/ /\ up.phase = "adapt" /\ up'.phase = "fail" /\ up'.todo = <<>> /\ ses' = ses
               /\ (IF ses.same THEN FoundAdpt ELSE PitOf[up.img]) = 0
            \/ up'.phase = Follows[up.phase] /\ up'.todo = Work(Follows[up.phase])
         /\ ses'.keys = ses.keys /\ ses'.bootOnly = ses.bootOnly
<1>1. ~Idle /\ up.todo = <<>> /\ ~up.open /\ UNCHANGED <<flash, hist>>
  BY DEF Proceed, TInv, Working
<1>2. CASE up' = [up EXCEPT !.phase = "fail"] /\ UNCHANGED ses
  <2>1. Follows[up.phase] = "prepare" /\ (IF ses.same THEN FoundAdpt ELSE PitOf[up.img]) = 0
    <3>1. up'.phase = "fail"
      BY <1>2 DEF TInv, Typed
    <3>2. CASE up' = [up EXCEPT !.phase = Follows[up.phase], !.todo = Work(Follows[up.phase]),
                       !.table = up'.table]
      BY <1>1, <3>1, <3>2, FollowsFacts DEF TInv, Typed
    <3>. QED  BY <1>1, <1>2, <3>1, <3>2 DEF Proceed
  <2>2. up'.phase = "fail" /\ up'.todo = <<>> /\ up'.cmd = up.cmd /\ up'.img = up.img
        /\ up'.creat = up.creat /\ up'.open = FALSE
    BY <1>1, <1>2 DEF TInv, Typed
  <2>. QED  BY <1>1, <1>2, <2>1, <2>2, FollowsFacts
<1>3. CASE /\ \E x : up' = [up EXCEPT !.phase = Follows[up.phase], !.todo = Work(Follows[up.phase]),
                                 !.table = x]
           /\ ses' = ses \/ ses' = [ses EXCEPT !.img = 0]
  BY <1>1, <1>3 DEF TInv, Typed
<1>. QED  BY <1>1, <1>2, <1>3 DEF Proceed

\* A power loss or a failure is counted.
LEMMA HistFacts ==
  ASSUME hist \in [upg : Nat, cut : 0 .. MaxCut, fail : 0 .. MaxFail, pit : Nat], NEW h \in Nat
  PROVE  /\ hist.cut < MaxCut =>
              [hist EXCEPT !.cut = hist.cut + 1, !.pit = h]
                \in [upg : Nat, cut : 0 .. MaxCut, fail : 0 .. MaxFail, pit : Nat]
         /\ hist.fail < MaxFail =>
              [hist EXCEPT !.fail = hist.fail + 1, !.pit = h]
                \in [upg : Nat, cut : 0 .. MaxCut, fail : 0 .. MaxFail, pit : Nat]
<1>1. MaxCut \in Nat /\ MaxFail \in Nat
  BY ImageAssumption
<1>2. hist.cut < MaxCut => hist.cut + 1 \in 0 .. MaxCut
  BY <1>1
<1>3. hist.fail < MaxFail => hist.fail + 1 \in 0 .. MaxFail
  BY <1>1
<1>. QED  BY <1>2, <1>3

\* The other steps, by what they do to each variable.
LEMMA StartFacts ==
  ASSUME TInv, NEW c \in {"be", "be all", "bl", "fe"}, NEW i \in Images, Start(c, i)
  PROVE  /\ Idle /\ UNCHANGED flash /\ ses'.keys = ses.keys
         /\ up'.phase \in {"fail", "backup", "fe_plan"} /\ up'.open = FALSE
         /\ up'.todo = <<>> \/ (up'.phase = "backup" /\ up'.todo = Keys /\ up'.creat)
         /\ hist'.cut = hist.cut /\ hist'.fail = hist.fail /\ hist'.pit = hist.pit
<1>1. \E img, ph, cr : Begins(c, i, img, ph, cr) /\ ph \in {"fail", "backup", "fe_plan"}
  <2>1. CASE StartFE(i) /\ c = "fe"
    BY <2>1 DEF StartFE
  <2>2. CASE StartBE(c, i)
    BY <2>2 DEF StartBE
  <2>3. CASE StartWithFE(c, i)
    BY <2>3 DEF StartWithFE
  <2>. QED  BY <2>1, <2>2, <2>3 DEF Start
<1>2. PICK img, ph, cr : Begins(c, i, img, ph, cr) /\ ph \in {"fail", "backup", "fe_plan"}
  BY <1>1
<1>3. Idle /\ UNCHANGED flash
  BY <1>2 DEF Begins
<1>4. up' = [cmd |-> c, img |-> img, usb |-> i, phase |-> ph, open |-> FALSE, creat |-> cr,
             table |-> 0, todo |-> IF ph = "backup" /\ cr /\ ses.tbl THEN Keys ELSE <<>>]
  BY <1>2 DEF Begins
<1>5. up'.phase \in {"fail", "backup", "fe_plan"} /\ up'.open = FALSE
  BY <1>2, <1>4
<1>6. up'.todo = <<>> \/ (up'.phase = "backup" /\ up'.todo = Keys /\ up'.creat)
  BY <1>4
<1>7. hist' = [hist EXCEPT !.upg = @ + 1]
  BY <1>2 DEF Begins
<1>8. ses'.keys = ses.keys
  <2>1. \E n, sm, bo : ses' = [ses EXCEPT !.img = n, !.same = sm, !.bootOnly = bo]
    <3>1. CASE StartFE(i) /\ c = "fe"
      <4>1. PICK n : ses' = [ses EXCEPT !.img = n]
        BY <3>1 DEF StartFE
      <4>2. ses' = [ses EXCEPT !.img = n, !.same = ses.same, !.bootOnly = ses.bootOnly]
        BY <4>1 DEF TInv, Typed
      <4>. QED  BY <4>2
    <3>2. CASE StartBE(c, i)
      BY <3>2, Zenon DEF StartBE
    <3>3. CASE StartWithFE(c, i)
      <4>1. ses' = [ses EXCEPT !.img = 0, !.bootOnly = @ \/ c = "bl"]
        BY <3>3 DEF StartWithFE
      <4>2. PICK bo : bo = (ses.bootOnly \/ c = "bl")
        OBVIOUS
      <4>3. ses' = [ses EXCEPT !.img = 0, !.same = ses.same, !.bootOnly = bo]
        BY <4>1, <4>2 DEF TInv, Typed
      <4>. QED  BY <4>3
    <3>. QED  BY <3>1, <3>2, <3>3 DEF Start
  <2>2. PICK n, sm, bo : ses' = [ses EXCEPT !.img = n, !.same = sm, !.bootOnly = bo]
    BY <2>1
  <2>. QED  BY <2>2 DEF TInv, Typed
<1>. QED  BY <1>3, <1>5, <1>6, <1>7, <1>8, CountFacts

\* A target not wanted leaves the list and nothing else changes.
LEMMA SkipFacts ==
  ASSUME TInv, Skip
  PROVE  /\ ~Idle /\ up.todo # <<>> /\ ~Wanted(Target) /\ up.open = FALSE
         /\ UNCHANGED <<flash, ses, hist>> /\ up' = [up EXCEPT !.todo = Tail(up.todo)]
         /\ up'.todo = Tail(up.todo) /\ up'.open = FALSE /\ up'.phase = up.phase
         /\ up'.cmd = up.cmd /\ up'.img = up.img /\ up'.creat = up.creat
<1>1. up' = [up EXCEPT !.todo = Tail(up.todo)] /\ UNCHANGED <<flash, ses, hist>>
      /\ ~Idle /\ up.todo # <<>> /\ ~Wanted(Target)
  BY DEF Skip
<1>2. up.open = FALSE
  BY <1>1 DEF TInv, Typed, Working
<1>. QED  BY <1>1, <1>2 DEF TInv, Typed

\* A target is begun: it is erased or torn, and a key was read before.
LEMMA OpenFacts ==
  ASSUME TInv, Open
  PROVE  /\ ~Idle /\ up.todo # <<>> /\ Wanted(Target) /\ up.open = FALSE /\ UNCHANGED hist
         /\ \E x \in Begun : flash' = [flash EXCEPT ![Target] = x]
         /\ ses' = IF up.phase = "backup" THEN [ses EXCEPT !.keys[Target] = flash[Target]]
                   ELSE ses
         /\ up' = [up EXCEPT !.open = TRUE]
         /\ up'.todo = up.todo /\ up'.open = TRUE /\ up'.phase = up.phase
         /\ up'.cmd = up.cmd /\ up'.img = up.img /\ up'.creat = up.creat
<1>1. /\ ~Idle /\ up.todo # <<>> /\ Wanted(Target) /\ ~up.open /\ UNCHANGED hist
      /\ up' = [up EXCEPT !.open = TRUE]
      /\ \E x \in Begun : flash' = [flash EXCEPT ![Target] = x]
      /\ ses' = IF up.phase = "backup" THEN [ses EXCEPT !.keys[Target] = flash[Target]]
                ELSE ses
  BY DEF Open
<1>2. up'.todo = up.todo /\ up'.open = TRUE /\ up'.phase = up.phase
      /\ up'.cmd = up.cmd /\ up'.img = up.img /\ up'.creat = up.creat /\ up.open = FALSE
  BY <1>1 DEF TInv, Typed
<1>. QED  BY <1>1, <1>2

\* A target holds its value and leaves the list.
LEMMA CloseFacts ==
  ASSUME TInv, Close
  PROVE  /\ ~Idle /\ up.todo # <<>> /\ Wanted(Target) /\ up.open /\ UNCHANGED <<ses, hist>>
         /\ flash' = [flash EXCEPT ![Target] = Value(Target)]
         /\ up' = [up EXCEPT !.open = FALSE, !.todo = Tail(up.todo)]
         /\ up'.todo = Tail(up.todo) /\ up'.open = FALSE /\ up'.phase = up.phase
         /\ up'.cmd = up.cmd /\ up'.img = up.img /\ up'.creat = up.creat
<1>1. up.todo # <<>> /\ Wanted(Target)
  BY DEF Close, TInv, Working
<1>2. ~Idle
  BY <1>1, TargetFacts
<1>3. /\ up' = [up EXCEPT !.open = FALSE, !.todo = Tail(up.todo)]
      /\ up.open /\ UNCHANGED <<ses, hist>>
      /\ flash' = [flash EXCEPT ![Target] = Value(Target)]
  BY DEF Close
<1>. QED  BY <1>1, <1>2, <1>3 DEF TInv, Typed

\* A failure ends the upgrade, but for the adaptive PIT.
LEMMA FailFacts ==
  ASSUME TInv, Fail
  PROVE  /\ ~Idle /\ up.todo # <<>> /\ up.open /\ UNCHANGED flash
         /\ up'.todo = <<>> /\ up'.open = FALSE
         /\ \/ up.phase = "adapt" /\ up'.phase = "adapt"
            \/ up.phase # "adapt" /\ up'.phase = "fail"
         /\ up'.cmd = up.cmd /\ up'.img = up.img /\ up'.creat = up.creat
         /\ ses'.keys = ses.keys /\ ses'.bootOnly = ses.bootOnly
         /\ up' \in [cmd : Commands, img : Images \cup {0}, usb : Images \cup {0},
                    phase : Phases, todo : Seq(Targets), open : BOOLEAN,
                    creat : BOOLEAN, table : Nat]
         /\ ses' \in [same : BOOLEAN, bootOnly : BOOLEAN, keys : [Range(Keys) -> Content],
                     tbl : BOOLEAN, img : Images \cup {-1, 0}]
         /\ hist' \in [upg : Nat, cut : 0 .. MaxCut, fail : 0 .. MaxFail, pit : Nat]
         /\ hist'.cut = hist.cut /\ hist'.fail = hist.fail + 1 /\ hist'.pit = Hit(hist.pit)
<1>1. up.todo # <<>> /\ up.open /\ UNCHANGED flash
  BY DEF Fail, TInv, Working
<1>2. ~Idle
  BY <1>1, TargetFacts
<1>3. Hit(hist.pit) \in Nat
  BY DEF TInv, Typed, Hit
<1>4. hist' = [hist EXCEPT !.fail = hist.fail + 1, !.pit = Hit(hist.pit)] /\ hist.fail < MaxFail
  BY DEF Fail
<1>5. /\ hist' \in [upg : Nat, cut : 0 .. MaxCut, fail : 0 .. MaxFail, pit : Nat]
      /\ hist'.cut = hist.cut /\ hist'.fail = hist.fail + 1 /\ hist'.pit = Hit(hist.pit)
  <2>1. hist \in [upg : Nat, cut : 0 .. MaxCut, fail : 0 .. MaxFail, pit : Nat]
    BY DEF TInv, Typed
  <2>. QED  BY <1>3, <1>4, <2>1, HistFacts
<1>. DEFINE ph == IF up.phase = "adapt" THEN "adapt" ELSE "fail"
<1>6. up' = [up EXCEPT !.open = FALSE, !.todo = <<>>, !.phase = ph]
  <2>1. up.phase = "adapt" => [up EXCEPT !.open = FALSE, !.todo = <<>>, !.phase = "adapt"]
                            = [up EXCEPT !.open = FALSE, !.todo = <<>>, !.phase = up.phase]
    OBVIOUS
  <2>. QED  BY <2>1 DEF Fail
<1>7. ph \in Phases
  BY DEF Phases
<1>8. /\ up' \in [cmd : Commands, img : Images \cup {0}, usb : Images \cup {0},
                 phase : Phases, todo : Seq(Targets), open : BOOLEAN,
                 creat : BOOLEAN, table : Nat]
      /\ up'.todo = <<>> /\ up'.open = FALSE /\ up'.phase = ph
      /\ up'.cmd = up.cmd /\ up'.img = up.img /\ up'.creat = up.creat
  <2>. HIDE DEF ph
  <2>. QED  BY <1>6, <1>7, RangeEmpty DEF TInv, Typed
<1>9. /\ ses' \in [same : BOOLEAN, bootOnly : BOOLEAN, keys : [Range(Keys) -> Content],
                  tbl : BOOLEAN, img : Images \cup {-1, 0}]
      /\ ses'.keys = ses.keys /\ ses'.bootOnly = ses.bootOnly
  BY DEF Fail, TInv, Typed
<1>. QED  BY <1>1, <1>2, <1>5, <1>6, <1>8, <1>9

\* A power loss leaves the flash and a session without memory.
LEMMA PowerLossFacts ==
  ASSUME TInv, PowerLoss
  PROVE  /\ UNCHANGED flash /\ up' = NoUpgrade /\ ses' = FreshSession(FoundPit # 0)
         /\ hist' \in [upg : Nat, cut : 0 .. MaxCut, fail : 0 .. MaxFail, pit : Nat]
         /\ Idle => hist' = hist
         /\ ~Idle => hist'.cut > hist.cut /\ hist'.pit = Hit(hist.pit)
         /\ hist'.cut >= hist.cut /\ hist'.fail = hist.fail
<1>1. CASE Idle
  <2>1. hist' = hist
    BY <1>1 DEF PowerLoss
  <2>2. hist'.cut >= hist.cut
    BY <2>1, ImageAssumption DEF TInv, Typed
  <2>. QED  BY <1>1, <2>1, <2>2 DEF PowerLoss, TInv, Typed
<1>2. CASE ~Idle
  <2>1. /\ hist' = [hist EXCEPT !.cut = hist.cut + 1, !.pit = Hit(hist.pit)]
        /\ hist.cut < MaxCut /\ UNCHANGED flash /\ up' = NoUpgrade
        /\ ses' = FreshSession(FoundPit # 0)
    BY <1>2 DEF PowerLoss
  <2>2. Hit(hist.pit) \in Nat
    BY DEF TInv, Typed, Hit
  <2>3. /\ hist' \in [upg : Nat, cut : 0 .. MaxCut, fail : 0 .. MaxFail, pit : Nat]
        /\ hist'.cut > hist.cut /\ hist'.pit = Hit(hist.pit)
        /\ hist'.cut >= hist.cut /\ hist'.fail = hist.fail
    <3>1. hist' = [hist EXCEPT !.cut = hist.cut + 1, !.pit = Hit(hist.pit)]
          /\ hist.cut < MaxCut
      BY <2>1
    <3>2. hist \in [upg : Nat, cut : 0 .. MaxCut, fail : 0 .. MaxFail, pit : Nat]
      BY DEF TInv, Typed
    <3>3. hist' \in [upg : Nat, cut : 0 .. MaxCut, fail : 0 .. MaxFail, pit : Nat]
      BY <2>2, <3>1, <3>2, HistFacts
    <3>4. hist'.cut = hist.cut + 1 /\ hist'.pit = Hit(hist.pit) /\ hist'.fail = hist.fail
      BY <3>1, <3>2
    <3>. QED  BY <3>2, <3>3, <3>4
  <2>. QED  BY <1>2, <2>1, <2>3
<1>. QED  BY <1>1, <1>2

\* Writing a target, and dropping one from the list.
LEMMA WriteHeld ==
  ASSUME TInv, NEW t \in Targets, NEW x \in Content, flash' = [flash EXCEPT ![t] = x],
         x.s \in {"erased", "torn"} \cup (IF t \in Stats THEN {"BE", "FE", "SUC"} ELSE {"data"}),
         x.s = "erased" => x = Erased,
         t \in Pits \cup Adpts /\ x.s = "data" => x.v # 0
  PROVE  flash' \in [Targets -> Content] /\ (ses' = ses => Held')
<1>1. flash' \in [Targets -> Content]
  BY DEF TInv, Typed
<1>2. \A u \in Targets : flash'[u] = IF u = t THEN x ELSE flash[u]
  BY DEF TInv, Typed
<1>3. Pits \cup Adpts \subseteq Targets
  BY Names DEF Pits, Adpts, Others
<1>4. \A u \in Targets :
        /\ flash'[u].s \in {"erased", "torn"}
             \cup (IF u \in Stats THEN {"BE", "FE", "SUC"} ELSE {"data"})
        /\ flash'[u].s = "erased" => flash'[u] = Erased
        /\ u \in Pits \cup Adpts => (flash'[u].s = "data" => flash'[u].v # 0)
  <2>. SUFFICES ASSUME NEW u \in Targets
       PROVE  /\ flash'[u].s \in {"erased", "torn"}
                   \cup (IF u \in Stats THEN {"BE", "FE", "SUC"} ELSE {"data"})
              /\ flash'[u].s = "erased" => flash'[u] = Erased
              /\ u \in Pits \cup Adpts => (flash'[u].s = "data" => flash'[u].v # 0)
    OBVIOUS
  <2>1. CASE u = t
    <3>1. flash'[u] = x
      BY <1>2, <2>1
    <3>. QED  BY <2>1, <3>1
  <2>2. CASE u # t
    <3>1. flash'[u] = flash[u]
      BY <1>2, <2>2
    <3>. QED  BY <3>1 DEF TInv, Held
  <2>. QED  BY <2>1, <2>2
<1>. QED  BY <1>1, <1>3, <1>4 DEF TInv, Held

\* What a target holds while it is being written.
LEMMA BegunHeld ==
  ASSUME NEW x \in Begun
  PROVE  x \in Content /\ x.s \in {"erased", "torn"} /\ (x.s = "erased" => x = Erased)
BY BegunFacts DEF Erased, Torn, Is, Content

\* The list and the phase of an upgrade that goes on.
LEMMA WorkingKept ==
  ASSUME TInv, ~Idle, up'.phase = up.phase, up'.cmd = up.cmd, up'.img = up.img,
         Range(up'.todo) \subseteq Left,
         up'.open => up'.todo # <<>> /\ Wanted(Target)'
  PROVE  Working'
<1>1. Range(up'.todo) \subseteq Reach(up'.phase)
  BY DEF TInv, Working, Left
<1>2. ~Idle' => up'.img \in Images /\ (up'.cmd = "fe" <=> up'.phase \in FePhases)
  BY DEF TInv, Working, Idle
<1>. QED  BY <1>1, <1>2 DEF Working

\* Every step keeps the types.
LEMMA StepTyped == ASSUME TInv, [Next]_vars PROVE TInv'
<1>1. ASSUME NEW c \in {"be", "be all", "bl", "fe"}, NEW i \in Images, Start(c, i)
      PROVE  TInv'
  BY <1>1, StartTyped
<1>2. ASSUME NEW i \in Images, Reload(i)
      PROVE  TInv'
  <2>1. ses' = [ses EXCEPT !.img = i] /\ UNCHANGED <<flash, up, hist>> /\ Idle
    BY <1>2 DEF Reload
  <2>2. /\ ses' \in [same : BOOLEAN, bootOnly : BOOLEAN, keys : [Range(Keys) -> Content],
                    tbl : BOOLEAN, img : Images \cup {-1, 0}]
        /\ ses'.keys = ses.keys
    BY <2>1 DEF TInv, Typed
  <2>3. Typed'
    BY <2>1, <2>2 DEF TInv, Typed
  <2>4. Held'
    BY <2>1, <2>2 DEF TInv, Held
  <2>5. up.open = FALSE
    BY <2>1, TargetFacts DEF TInv, Typed, Working
  <2>6. Working'
    BY <2>1, <2>5 DEF TInv, Working, Idle
  <2>. QED  BY <2>3, <2>4, <2>6 DEF TInv
<1>3. CASE Proceed
  <2>1. up' \in [cmd : Commands, img : Images \cup {0}, usb : Images \cup {0},
                 phase : Phases, todo : Seq(Targets), open : BOOLEAN,
                 creat : BOOLEAN, table : Nat]
        /\ ses' \in [same : BOOLEAN, bootOnly : BOOLEAN, keys : [Range(Keys) -> Content],
                     tbl : BOOLEAN, img : Images \cup {-1, 0}]
    <3>1. (IF ses.same THEN FoundAdpt ELSE PitOf[up.img]) \in Nat
      BY <1>3, ProceedFacts, FoundFacts, ImagePit, Names
         DEF FoundAdpt, TInv, Working, Others, Adpts
    <3>2. Follows[up.phase] \in Phases /\ "fail" \in Phases
      BY <1>3, ProceedFacts, FollowsFacts DEF Phases
    <3>3. Work(Follows[up.phase]) \in Seq(Targets)
      BY <3>2, WorkFacts
    <3>4. PICK ph \in Phases, td \in Seq(Targets), tb \in Nat :
            up' = [up EXCEPT !.phase = ph, !.todo = td, !.table = tb]
      <4>1. CASE up' = [up EXCEPT !.phase = "fail"]
        <5>1. up' = [up EXCEPT !.phase = "fail", !.todo = up.todo, !.table = up.table]
          BY <4>1 DEF TInv, Typed
        <5>. QED  BY <3>2, <5>1 DEF TInv, Typed
      <4>2. CASE \E tb \in {IF ses.same THEN FoundAdpt ELSE PitOf[up.img], up.table} :
              up' = [up EXCEPT !.phase = Follows[up.phase],
                               !.todo = Work(Follows[up.phase]), !.table = tb]
        <5>1. up.table \in Nat
          BY DEF TInv, Typed
        <5>. QED  BY <3>1, <3>2, <3>3, <4>2, <5>1
      <4>. QED  BY <1>3, <4>1, <4>2 DEF Proceed
    <3>5. ses' = ses \/ ses' = [ses EXCEPT !.img = 0]
      BY <1>3 DEF Proceed
    <3>6. up' \in [cmd : Commands, img : Images \cup {0}, usb : Images \cup {0},
                 phase : Phases, todo : Seq(Targets), open : BOOLEAN,
                 creat : BOOLEAN, table : Nat]
      BY <3>4 DEF TInv, Typed
    <3>7. ses' \in [same : BOOLEAN, bootOnly : BOOLEAN, keys : [Range(Keys) -> Content],
                     tbl : BOOLEAN, img : Images \cup {-1, 0}]
      BY <3>5 DEF TInv, Typed
    <3>. QED  BY <3>6, <3>7
  <2>2. Typed'
    BY <1>3, <2>1, ProceedFacts DEF TInv, Typed
  <2>3. Held'
    BY <1>3, ProceedFacts DEF TInv, Held
  <2>4. Range(up'.todo) \subseteq Reach(up'.phase)
    <3>1. Follows[up.phase] \in Phases
      BY <1>3, ProceedFacts, FollowsFacts
    <3>. QED  BY <1>3, <3>1, ProceedFacts, WorkFacts, RangeEmpty
  <2>5. ~Idle' => up'.img \in Images /\ (up'.cmd = "fe" <=> up'.phase \in FePhases)
    <3>1. ~Idle /\ up'.cmd = up.cmd /\ up'.img = up.img
          /\ (up'.phase = "fail" \/ up'.phase = Follows[up.phase])
      BY <1>3, ProceedFacts
    <3>2. up.img \in Images /\ (up.cmd = "fe" <=> up.phase \in FePhases)
      BY <3>1 DEF TInv, Working
    <3>3. up.phase \in Phases
      BY DEF TInv, Typed
    <3>4. Follows[up.phase] \in {"ok", "fail", "off"}
             \/ (Follows[up.phase] \in FePhases <=> up.phase \in FePhases)
      BY <3>1, <3>3 DEF Follows, Phases, FePhases, Idle
    <3>. QED  BY <3>1, <3>2, <3>4 DEF Idle
  <2>6. Working'
    BY <1>3, <2>4, <2>5, ProceedFacts DEF Working
  <2>. QED  BY <2>2, <2>3, <2>6 DEF TInv
<1>4. CASE Skip
  <2>1. Tail(up.todo) \in Seq(Targets) /\ Range(Tail(up.todo)) \subseteq Left
    BY <1>4, SkipFacts, TargetFacts
  <2>2. up' \in [cmd : Commands, img : Images \cup {0}, usb : Images \cup {0},
                 phase : Phases, todo : Seq(Targets), open : BOOLEAN,
                 creat : BOOLEAN, table : Nat]
    BY <1>4, <2>1, SkipFacts DEF TInv, Typed
  <2>3. UNCHANGED <<flash, ses, hist>>
    BY <1>4, SkipFacts
  <2>4. Typed'
    BY <2>2, <2>3 DEF TInv, Typed
  <2>5. Held'
    BY <2>3 DEF TInv, Held
  <2>6. Working'
    BY <1>4, <2>1, SkipFacts, WorkingKept
  <2>. QED  BY <2>4, <2>5, <2>6 DEF TInv
<1>5. CASE Open
  <2>1. PICK x \in Begun : flash' = [flash EXCEPT ![Target] = x]
    BY <1>5, OpenFacts
  <2>2. x \in Content /\ x.s \in {"erased", "torn"} /\ (x.s = "erased" => x = Erased)
    BY <2>1, BegunHeld
  <2>3. Target \in Targets /\ up.todo # <<>> /\ Target \in Reach(up.phase)
    BY <1>5, OpenFacts, TargetFacts
  <2>4. flash' \in [Targets -> Content] /\ (ses' = ses => Held')
    BY <2>1, <2>2, <2>3, WriteHeld
  <2>5. up' \in [cmd : Commands, img : Images \cup {0}, usb : Images \cup {0},
                 phase : Phases, todo : Seq(Targets), open : BOOLEAN,
                 creat : BOOLEAN, table : Nat]
    BY <1>5, OpenFacts DEF TInv, Typed
  <2>6. Working'
    <3>1. Target' = Target /\ up'.todo # <<>>
      BY <1>5, OpenFacts DEF Target
    <3>2. Wanted(Target)'
      <4>1. CASE up.phase = "bins"
        <5>1. Selected(Target)
          BY <1>5, <4>1, OpenFacts DEF Wanted
        <5>2. ses' = ses /\ up'.cmd = up.cmd /\ up'.phase = up.phase
          BY <1>5, <4>1, OpenFacts
        <5>3. BackupPart' = BackupPart /\ BootPart' = BootPart
          BY <5>2 DEF BackupPart, BootPart
        <5>4. Selected(Target)'
          BY <3>1, <5>1, <5>2, <5>3 DEF Selected
        <5>. QED  BY <4>1, <5>2, <5>4 DEF Wanted
      <4>2. CASE up.phase = "restore"
        <5>1. ses.keys[Target].s # "none" /\ ses' = ses /\ up'.phase = up.phase
          BY <1>5, <4>2, OpenFacts DEF Wanted
        <5>. QED  BY <3>1, <4>2, <5>1 DEF Wanted
      <4>3. CASE up.phase \notin {"bins", "restore"}
        BY <1>5, <4>3, OpenFacts DEF Wanted
      <4>. QED  BY <4>1, <4>2, <4>3
    <3>3. Range(up'.todo) \subseteq Left
      BY <1>5, OpenFacts DEF Left
    <3>. QED  BY <1>5, <3>1, <3>2, <3>3, OpenFacts, WorkingKept
  <2>7. CASE up.phase = "backup"
    <3>1. ses' = [ses EXCEPT !.keys[Target] = flash[Target]] /\ Target \in Range(Keys)
      BY <1>5, <2>3, <2>7, OpenFacts, ReachFacts DEF TInv, Typed
    <3>2. /\ ses' \in [same : BOOLEAN, bootOnly : BOOLEAN, keys : [Range(Keys) -> Content],
                      tbl : BOOLEAN, img : Images \cup {-1, 0}]
          /\ \A k \in Range(Keys) : ses'.keys[k] = IF k = Target THEN flash[Target] ELSE ses.keys[k]
      BY <2>3, <3>1 DEF TInv, Typed
    <3>3. Typed'
      BY <1>5, <2>4, <2>5, <3>2, OpenFacts DEF TInv, Typed
    <3>4. /\ \A t \in Targets : flash'[t].s \in {"erased", "torn"}
               \cup (IF t \in Stats THEN {"BE", "FE", "SUC"} ELSE {"data"})
          /\ \A t \in Targets : flash'[t].s = "erased" => flash'[t] = Erased
          /\ \A t \in Pits \cup Adpts : flash'[t].s = "data" => flash'[t].v # 0
      <4>1. \A u \in Targets : flash'[u] = IF u = Target THEN x ELSE flash[u]
        BY <2>1 DEF TInv, Typed
      <4>2. Pits \cup Adpts \subseteq Targets
        BY Names DEF Pits, Adpts, Others
      <4>. QED  BY <2>2, <4>1, <4>2 DEF TInv, Held
    <3>5. ASSUME NEW k \in Range(Keys)
          PROVE  /\ ses'.keys[k].s \in {"none", "erased", "torn", "data"}
                 /\ ses'.keys[k].s = "erased" => ses'.keys[k] = Erased
      <4>1. Target \notin Stats
        BY <3>1, Names DEF FeParts, Stats, Others
      <4>2. CASE k = Target
        <5>1. ses'.keys[k] = flash[Target]
          BY <3>2, <4>2
        <5>. QED  BY <2>3, <4>1, <5>1 DEF TInv, Held
      <4>3. CASE k # Target
        <5>1. ses'.keys[k] = ses.keys[k]
          BY <3>2, <4>3
        <5>. QED  BY <5>1 DEF TInv, Held
      <4>. QED  BY <4>2, <4>3
    <3>6. Held'
      BY <3>4, <3>5 DEF Held
    <3>. QED  BY <2>6, <3>3, <3>6 DEF TInv
  <2>8. CASE up.phase # "backup"
    <3>1. ses' = ses
      BY <1>5, <2>8, OpenFacts
    <3>2. Typed'
      BY <1>5, <2>4, <2>5, <3>1, OpenFacts DEF TInv, Typed
    <3>. QED  BY <2>4, <2>6, <3>1, <3>2 DEF TInv
  <2>. QED  BY <2>7, <2>8
<1>6. CASE Close
  <2>1. /\ Target \in Targets /\ up.todo # <<>> /\ Target \in Reach(up.phase) /\ Wanted(Target)
        /\ Tail(up.todo) \in Seq(Targets) /\ Range(Tail(up.todo)) \subseteq Left
        /\ flash' = [flash EXCEPT ![Target] = Value(Target)] /\ UNCHANGED <<ses, hist>>
    BY <1>6, CloseFacts, TargetFacts
  <2>2. Target \in Pits \cup Adpts /\ Value(Target).s = "data" => Value(Target).v # 0
    <3>1. up.img \in Images /\ up.phase \in Phases
      BY <2>1, TargetFacts DEF TInv, Typed
    <3>2. Target \in Pits \cup Adpts => up.phase \in {"pits", "adapt"}
      BY <2>1, <3>1, ReachFacts
    <3>3. Data(PitOf[up.img]).v # 0
      BY <3>1, ImagePit DEF Data, Is
    <3>. QED  BY <2>1, <3>2, <3>3, ValueFacts
  <2>3. /\ Value(Target) \in Content
        /\ Value(Target).s \in {"erased", "torn"}
             \cup (IF Target \in Stats THEN {"BE", "FE", "SUC"} ELSE {"data"})
        /\ Value(Target).s = "erased" => Value(Target) = Erased
    BY <2>1, ValueFacts
  <2>4. flash' \in [Targets -> Content] /\ Held'
    BY <2>1, <2>2, <2>3, WriteHeld
  <2>5. up' \in [cmd : Commands, img : Images \cup {0}, usb : Images \cup {0},
                 phase : Phases, todo : Seq(Targets), open : BOOLEAN,
                 creat : BOOLEAN, table : Nat]
    BY <1>6, <2>1, CloseFacts DEF TInv, Typed
  <2>6. Typed'
    BY <2>1, <2>4, <2>5 DEF TInv, Typed
  <2>7. Working'
    BY <1>6, <2>1, CloseFacts, WorkingKept
  <2>. QED  BY <2>4, <2>6, <2>7 DEF TInv
<1>7. CASE Fail
  <2>1. Typed'
    BY <1>7, FailFacts DEF TInv, Typed
  <2>3. Held'
    <3>1. flash' = flash /\ ses'.keys = ses.keys
      BY <1>7, FailFacts
    <3>. QED  BY <3>1 DEF TInv, Held
  <2>2. Working'
    <3>1. up'.todo = <<>> /\ up'.open = FALSE /\ up'.cmd = up.cmd /\ up'.img = up.img /\ ~Idle
          /\ ((up.phase = "adapt" /\ up'.phase = "adapt") \/ up'.phase = "fail")
      BY <1>7, FailFacts
    <3>. QED  BY <3>1, RangeEmpty DEF TInv, Working, Idle, FePhases
  <2>. QED  BY <2>1, <2>2, <2>3 DEF TInv
<1>8. CASE PowerLoss
  <2>1. /\ UNCHANGED flash /\ up' = NoUpgrade /\ ses' = FreshSession(FoundPit # 0)
        /\ hist' \in [upg : Nat, cut : 0 .. MaxCut, fail : 0 .. MaxFail, pit : Nat]
    BY <1>8, PowerLossFacts
  <2>2. Is("none", 0, {}) \in Content
    BY DEF Is, Content
  <2>3. /\ ses' \in [same : BOOLEAN, bootOnly : BOOLEAN, keys : [Range(Keys) -> Content],
                    tbl : BOOLEAN, img : Images \cup {-1, 0}]
        /\ \A k \in Range(Keys) : ses'.keys[k].s = "none"
    BY <2>1, <2>2 DEF FreshSession, NoKeys, Is
  <2>4. /\ up' \in [cmd : Commands, img : Images \cup {0}, usb : Images \cup {0},
                 phase : Phases, todo : Seq(Targets), open : BOOLEAN,
                 creat : BOOLEAN, table : Nat]
        /\ up'.todo = <<>> /\ up'.open = FALSE /\ up'.phase = "off"
    BY <2>1, RangeEmpty DEF NoUpgrade, Commands, Phases
  <2>5. Typed' /\ Held'
    BY <2>1, <2>3, <2>4 DEF TInv, Typed, Held
  <2>6. Working'
    BY <2>4, RangeEmpty DEF Working, Idle, Reach
  <2>. QED  BY <2>5, <2>6 DEF TInv
<1>9. CASE UNCHANGED vars
  <2>1. Typed' /\ Held'
    BY <1>9 DEF vars, TInv, Typed, Held
  <2>2. Working'
    <3>1. Target' = Target /\ Idle' = Idle /\ BackupPart' = BackupPart /\ BootPart' = BootPart
      BY <1>9 DEF vars, Target, Idle, BackupPart, BootPart
    <3>2. Wanted(Target) => Wanted(Target)'
      BY <1>9, <3>1 DEF vars, Wanted, Selected
    <3>. QED  BY <1>9, <3>1, <3>2 DEF vars, TInv, Working
  <2>. QED  BY <2>1, <2>2 DEF TInv
<1>. QED  BY <1>1, <1>2, <1>3, <1>4, <1>5, <1>6, <1>7, <1>8, <1>9 DEF Next, Step

\* The type invariant of Upgrade holds for every layout and every bound.
THEOREM Typing == Spec => []TypeOK
<1>1. TInv => TypeOK
  <2>. SUFFICES ASSUME TInv PROVE TypeOK
    OBVIOUS
  <2>1. up.phase \in DOMAIN Follows \cup {"ok", "fail", "off"}
    BY DEF TInv, Typed, Phases, Follows
  <2>2. Range(up.todo) \subseteq Targets
    BY RangeOfTail, RangeEquality DEF TInv, Typed
  <2>. QED  BY <2>1, <2>2 DEF TInv, Typed, Held, Working, TypeOK
<1>. QED  BY <1>1, InitTyped, StepTyped, PTL DEF Spec

-----------------------------------------------------------------------------
(* A status copy that says SUC is true.                                    *)

Quiet == ~Suc("st1") /\ ~Suc("st2")

\* One target written: the parts and the FE partition only while no copy says
\* SUC, a copy that says SUC only when it is true.
LEMMA WriteSuc ==
  ASSUME TInv, SInv, NEW t \in Targets, NEW x \in Content, flash' = [flash EXCEPT ![t] = x],
         t \in Parts => Quiet,
         t = "fe_bin_1" => Quiet \/ x # Torn,
         t \in Stats /\ x.s = "SUC" =>
           /\ x.sel \subseteq Parts \cup {"fe_bin_1"}
           /\ \A p \in x.sel : IF p \in Parts THEN flash[p] = Data(x.v) ELSE flash[p] # Torn
  PROVE  Vouched' /\ SucWhole'
<1>1. \A u \in Targets : flash'[u] = IF u = t THEN x ELSE flash[u]
  BY DEF TInv, Typed
<1>2. Stats \subseteq Targets /\ Stats \cap Parts = {} /\ Stats \cap {"fe_bin_1"} = {}
      /\ Parts \cup {"fe_bin_1"} \subseteq Targets
  BY Names DEF Stats, Others, FeParts
<1>3. ASSUME NEW c \in Stats, flash'[c].s = "SUC"
      PROVE  /\ flash'[c].sel \subseteq Parts \cup {"fe_bin_1"}
             /\ \A p \in flash'[c].sel :
                  IF p \in Parts THEN flash'[p] = Data(flash'[c].v) ELSE flash'[p] # Torn
  <2>1. CASE c = t
    <3>1. flash'[c] = x /\ t \in Stats
      BY <1>1, <1>2, <2>1
    <3>2. \A p \in x.sel : flash'[p] = flash[p]
      BY <1>1, <1>2, <1>3, <3>1
    <3>. QED  BY <1>3, <3>1, <3>2
  <2>2. CASE c # t
    <3>1. flash'[c] = flash[c]
      BY <1>1, <1>2, <2>2
    <3>2. Suc(c) /\ ~Quiet
      BY <1>3, <3>1 DEF Suc, Quiet, Stats
    <3>3. flash[c].sel \subseteq Parts \cup {"fe_bin_1"}
      BY <3>2 DEF SInv, Vouched
    <3>4. \A p \in flash[c].sel :
            IF p \in Parts THEN flash[p] = Data(flash[c].v) ELSE flash[p] # Torn
      BY <3>2 DEF SInv, SucWhole, Suc
    <3>5. t \notin Parts /\ (t = "fe_bin_1" => x # Torn)
      BY <3>2
    <3>6. \A p \in flash[c].sel :
            IF p \in Parts THEN flash'[p] = Data(flash[c].v) ELSE flash'[p] # Torn
      BY <1>1, <1>2, <3>3, <3>4, <3>5
    <3>. QED  BY <3>1, <3>3, <3>6
  <2>. QED  BY <2>1, <2>2
<1>. QED  BY <1>3 DEF Vouched, SucWhole, Suc

\* What each phase knows of the copies and the parts when it writes a target.
LEMMA MarkedFacts ==
  ASSUME TInv, SInv, up.todo # <<>>
  PROVE  /\ Target \in Parts => Quiet
         /\ Target = "fe_bin_1" => Quiet \/ up.phase = "backup"
         /\ up.phase \in {"pits", "bins", "restore", "fe"} => Quiet
<1>1. up.phase \in Phases /\ Target \in Reach(up.phase) /\ Target \in Left
  BY TargetFacts DEF TInv, Typed
<1>2. up.phase \in {"pits", "bins", "restore", "fe"} => Quiet
  BY DEF SInv, Marked, Quiet
<1>3. Target \in Parts /\ up.phase = "prepare" => Quiet
  <2>. SUFFICES ASSUME Target \in Parts, up.phase = "prepare" PROVE Quiet
    OBVIOUS
  <2>1. Target \notin Stats
    BY Names DEF Stats, Others
  <2>2. up.todo # StatusCopies \o Volumes
    BY <2>1, Names DEF Target, StatusCopies, Stats
  <2>3. up.todo # <<"st2">> \o Volumes
    BY <2>1, Names DEF Target, Stats
  <2>. QED  BY <1>1, <2>2, <2>3 DEF SInv, Marked, Quiet
<1>4. Target \in Parts => up.phase \in {"prepare", "bins"}
  BY <1>1, ReachFacts
<1>5. Target = "fe_bin_1" => up.phase \in {"backup", "restore", "fe"}
  BY <1>1, ReachFacts DEF FeParts
<1>. QED  BY <1>2, <1>3, <1>4, <1>5

\* The lists of the phases that work on the status copies and on the parts.
LEMMA Lists ==
  /\ Tail(StatusCopies \o Volumes) = <<"st2">> \o Volumes
  /\ Tail(<<"st2">> \o Volumes) = Volumes
  /\ Head(StatusCopies \o Volumes) = "st1" /\ Head(<<"st2">> \o Volumes) = "st2"
  /\ StatusCopies \o Volumes # <<>> /\ <<"st2">> \o Volumes # <<>>
<1>1. Volumes \in Seq(Targets) /\ "st1" \in Targets /\ "st2" \in Targets
  BY Names DEF Others, Stats
<1>2. StatusCopies \o Volumes = <<"st1">> \o (<<"st2">> \o Volumes)
  BY <1>1 DEF StatusCopies
<1>3. ASSUME NEW a \in Targets, NEW s \in Seq(Targets)
      PROVE  Tail(<<a>> \o s) = s /\ Head(<<a>> \o s) = a /\ <<a>> \o s # <<>>
  OBVIOUS
<1>4. <<"st2">> \o Volumes \in Seq(Targets)
  BY <1>1
<1>. QED  BY <1>1, <1>2, <1>3, <1>4

\* The parts an upgrade writes do not change while it runs.
LEMMA SelectedKept ==
  ASSUME up'.cmd = up.cmd, ses'.bootOnly = ses.bootOnly
  PROVE  /\ \A p : Selected(p)' <=> Selected(p)
         /\ SelectedSet' = SelectedSet
<1>1. BackupPart' = BackupPart /\ BootPart' = BootPart
  BY DEF BackupPart, BootPart
<1>2. \A p : Selected(p)' <=> Selected(p)
  BY <1>1 DEF Selected
<1>. QED  BY <1>2 DEF SelectedSet

\* With the status partition first, the work of "prepare" begins with it.
LEMMA PrepareWork ==
  ASSUME StatusFirst
  PROVE  Work("prepare") = StatusCopies \o Volumes \/ Work("prepare") = <<>>
BY DEF Work

\* The status of a device as it was made is true.
LEMMA InitSuc == ASSUME Init, TInv PROVE SInv
<1>1. \A t \in Targets :
        /\ t \in Stats => flash[t] = Is("SUC", 0, Parts)
        /\ t \in Parts => flash[t] = Data(0)
  <2>1. Parts \cap (Pits \cup Adpts \cup Stats \cup {"fe_bin_2"}) = {}
    BY Names DEF Others, FeParts
  <2>2. Stats \cap (Pits \cup Adpts) = {}
    BY DEF Stats, Pits, Adpts
  <2>3. PICK bak \in {Erased, Data(0)} :
          flash = [t \in Targets |->
            CASE t \in Pits \cup Adpts -> Data(1)
              [] t \in Stats -> Is("SUC", 0, Parts)
              [] t = "fe_bin_2" -> bak
              [] OTHER -> Data(0)]
    BY DEF Init
  <2>. QED  BY <2>1, <2>2, <2>3 DEF Pits, Adpts, Stats
<1>2. Stats \subseteq Targets /\ Parts \subseteq Targets
  BY Names DEF Others
<1>3. \A t \in Stats : flash[t].sel = Parts /\ flash[t].v = 0
  BY <1>1, <1>2 DEF Is
<1>4. Vouched
  BY <1>3 DEF Vouched
<1>5. SucWhole
  BY <1>1, <1>2, <1>3 DEF SucWhole
<1>6. Marked /\ Whole
  BY DEF Init, NoUpgrade, Marked, Whole
<1>. QED  BY <1>4, <1>5, <1>6 DEF SInv

\* Steps that leave the flash alone and end in a phase that promises nothing.
LEMMA StillSuc ==
  ASSUME SInv, UNCHANGED flash, up'.phase \in {"backup", "adapt", "fe_plan", "ok", "fail", "off"}
  PROVE  SInv'
<1>1. Marked' /\ Whole'
  BY DEF Marked, Whole
<1>2. Vouched' /\ SucWhole'
  BY DEF SInv, Vouched, SucWhole, Suc
<1>. QED  BY <1>1, <1>2 DEF SInv

\* The next phase finds the status and the parts as it needs them.
LEMMA ProceedSuc ==
  ASSUME StatusFirst, TInv, SInv, Proceed
  PROVE  SInv'
<1>1. /\ ~Idle /\ UNCHANGED flash /\ up'.cmd = up.cmd /\ up'.img = up.img
      /\ ses'.bootOnly = ses.bootOnly /\ up.todo = <<>>
  BY ProceedFacts
<1>2. Left = {}
  BY <1>1, RangeEmpty DEF Left
<1>3. CASE up'.phase = "fail"
  BY <1>1, <1>3, StillSuc
<1>4. CASE up'.phase = Follows[up.phase] /\ up'.todo = Work(Follows[up.phase])
  <2>1. up.phase \in Phases \ {"ok", "fail", "off"}
    BY <1>1 DEF TInv, Typed, Idle
  <2>2. SelectedSet' = SelectedSet /\ Left' = Range(Work(Follows[up.phase]))
    BY <1>1, <1>4, SelectedKept DEF Left
  <2>3. Vouched' /\ SucWhole'
    BY <1>1 DEF SInv, Vouched, SucWhole, Suc
  <2>4. CASE up.phase \in {"backup", "done", "fe_done"}
    BY <1>1, <1>4, <2>1, <2>4, FollowsFacts, StillSuc
  <2>5. CASE up.phase = "adapt"
    <3>1. up'.phase = "prepare" /\ up'.todo = Work("prepare")
      BY <1>1, <1>4, <2>5, FollowsFacts
    <3>2. Marked' /\ Whole'
      BY <3>1, PrepareWork, RangeEmpty DEF Marked, Whole, Left
    <3>. QED  BY <2>3, <3>2 DEF SInv
  <2>6. CASE up.phase \in {"prepare", "fe_plan"}
    <3>1. up'.phase \in {"mark", "fe_mark"} /\ up'.todo = StatusCopies
      BY <1>1, <1>4, <2>6, FollowsFacts DEF Work
    <3>2. Marked' /\ Whole'
      BY <3>1, Names DEF Marked, Whole, Left
    <3>. QED  BY <2>3, <3>2 DEF SInv
  <2>7. CASE up.phase \in {"mark", "pits", "bins", "fe_mark"}
    <3>1. Quiet
      BY <1>2, <2>7 DEF SInv, Marked, Quiet, Stats
    <3>2. up'.phase \in {"pits", "bins", "restore", "fe"}
      BY <1>1, <1>4, <2>7, FollowsFacts
    <3>3. Marked'
      BY <1>1, <3>1, <3>2 DEF Marked, Quiet, Suc
    <3>4. up'.phase = "bins" => Left' = Parts
      BY <1>4, <2>2, Names DEF Work
    <3>5. up'.phase = "restore" => \A p \in SelectedSet : flash[p] = Data(up.img)
      BY <1>1, <1>2, <1>4, FollowsFacts DEF SInv, Whole
    <3>6. up'.phase = "fe" => "fe_bin_1" \in Left'
      BY <1>4, <2>2 DEF Work, FeWork, Range
    <3>7. SelectedSet \subseteq Parts
      BY DEF SelectedSet
    <3>8. Whole'
      BY <1>1, <2>2, <3>2, <3>4, <3>5, <3>6, <3>7 DEF Whole
    <3>. QED  BY <2>3, <3>3, <3>8 DEF SInv
  <2>8. CASE up.phase \in {"restore", "fe"}
    <3>1. up'.phase = IF up.phase = "fe" THEN "fe_done" ELSE "done"
      BY <1>1, <1>4, <2>8, FollowsFacts
    <3>2. Marked'
      BY <3>1 DEF Marked
    <3>3. Whole'
      BY <1>1, <1>2, <2>2, <2>8, <3>1 DEF SInv, Whole
    <3>. QED  BY <2>3, <3>2, <3>3 DEF SInv
  <2>. QED  BY <2>1, <2>4, <2>5, <2>6, <2>7, <2>8 DEF Phases
<1>. QED  BY <1>3, <1>4, ProceedFacts

\* A part not selected is not vouched for.
LEMMA SkipSuc == ASSUME TInv, SInv, Skip PROVE SInv'
<1>1. /\ UNCHANGED <<flash, ses>> /\ up'.phase = up.phase /\ up'.cmd = up.cmd /\ up'.img = up.img
      /\ up'.todo = Tail(up.todo) /\ up.todo # <<>> /\ ~Wanted(Target)
  BY SkipFacts
<1>2. Left = {Target} \cup Left' /\ SelectedSet' = SelectedSet
  BY <1>1, TargetFacts, SelectedKept DEF Left
<1>3. up.phase \in {"bins", "restore"} /\ (up.phase = "bins" => Target \notin SelectedSet)
  BY <1>1 DEF Wanted, SelectedSet
<1>4. Marked'
  BY <1>1, <1>3 DEF SInv, Marked, Suc
<1>5. Whole'
  BY <1>1, <1>2, <1>3 DEF SInv, Whole
<1>6. Vouched' /\ SucWhole'
  BY <1>1 DEF SInv, Vouched, SucWhole, Suc
<1>. QED  BY <1>4, <1>5, <1>6 DEF SInv

\* No status copy says SUC when a part is begun.
LEMMA OpenSuc == ASSUME TInv, SInv, Open PROVE SInv'
<1>1. /\ up'.phase = up.phase /\ up'.cmd = up.cmd /\ up'.img = up.img
      /\ up'.todo = up.todo /\ up.todo # <<>> /\ ses'.bootOnly = ses.bootOnly
  <2>1. ses'.bootOnly = ses.bootOnly
    BY OpenFacts DEF TInv, Typed
  <2>. QED  BY <2>1, OpenFacts
<1>2. PICK x \in Begun : flash' = [flash EXCEPT ![Target] = x]
  BY OpenFacts
<1>3. x \in Content /\ x.s \in {"erased", "torn"} /\ Target \in Left /\ Target \in Targets
      /\ Target \in Reach(up.phase) /\ up.phase \in Phases
  BY <1>1, <1>2, BegunHeld, TargetFacts DEF TInv, Typed
<1>4. \A u \in Targets : flash'[u] = IF u = Target THEN x ELSE flash[u]
  BY <1>2 DEF TInv, Typed
<1>5. Left' = Left /\ SelectedSet' = SelectedSet
  BY <1>1, SelectedKept DEF Left
<1>6. \A c \in Stats : Suc(c)' => Suc(c)
  <2>1. Stats \subseteq Targets
    BY Names DEF Others
  <2>. QED  BY <1>3, <1>4, <2>1 DEF Suc
<1>7. Marked'
  BY <1>1, <1>5, <1>6 DEF SInv, Marked, Stats
<1>8. Whole'
  <2>1. SelectedSet \subseteq Parts /\ Parts \subseteq Targets /\ "fe_bin_1" \in Targets
    BY Names DEF SelectedSet, Others, FeParts
  <2>2. Target \in Parts => up.phase \notin {"restore", "done"}
    BY <1>3, ReachFacts
  <2>3. Target = "fe_bin_1" => up.phase # "fe_done"
    BY <1>3, ReachFacts DEF FeParts
  <2>. QED  BY <1>1, <1>3, <1>4, <1>5, <2>1, <2>2, <2>3 DEF SInv, Whole
<1>9. Vouched' /\ SucWhole'
  <2>1. Target = "fe_bin_1" => Quiet \/ x # Torn
    <3>1. up.phase = "backup" => Value(Target) = Erased
      BY <1>1, OpenFacts, ValueFacts
    <3>2. up.phase = "backup" => x = Erased
      BY <1>2, <3>1 DEF Begun
    <3>3. Erased # Torn
      BY DEF Erased, Torn, Is
    <3>. QED  BY <1>1, <3>2, <3>3, MarkedFacts
  <2>. QED  BY <1>1, <1>2, <1>3, <2>1, MarkedFacts, WriteSuc
<1>. QED  BY <1>7, <1>8, <1>9 DEF SInv

\* A status copy says SUC only when every part it vouches for is whole.
LEMMA CloseSuc == ASSUME TInv, SInv, Close PROVE SInv'
<1>1. /\ up'.phase = up.phase /\ up'.cmd = up.cmd /\ up'.img = up.img
      /\ up'.todo = Tail(up.todo) /\ up.todo # <<>> /\ UNCHANGED ses /\ Wanted(Target)
      /\ flash' = [flash EXCEPT ![Target] = Value(Target)]
  BY CloseFacts
<1>2. Target \in Left /\ Target \in Targets /\ Target \in Reach(up.phase) /\ up.phase \in Phases
      /\ Left = {Target} \cup Left' /\ SelectedSet' = SelectedSet
  BY <1>1, TargetFacts, SelectedKept DEF TInv, Typed, Left
<1>3. \A u \in Targets : flash'[u] = IF u = Target THEN Value(Target) ELSE flash[u]
  BY <1>1 DEF TInv, Typed
<1>4. Stats \subseteq Targets /\ Stats \cap Parts = {} /\ "fe_bin_1" \notin Stats
      /\ SelectedSet \subseteq Parts /\ Parts \subseteq Targets /\ "fe_bin_1" \in Targets
  BY Names DEF SelectedSet, Others, FeParts, Stats
<1>5. \A c \in Stats : Suc(c)' => \/ c # Target /\ Suc(c)
                                  \/ c = Target /\ up.phase \in {"done", "fe_done"}
  <2>1. Target \in Stats => up.phase \in {"prepare", "mark", "done", "fe_mark", "fe_done"}
    BY <1>2, ReachFacts
  <2>2. up.phase \in {"prepare", "mark", "fe_mark"} => Value(Target).s # "SUC"
    BY <1>1, ValueFacts DEF Erased, Is
  <2>. QED  BY <1>3, <1>4, <2>1, <2>2 DEF Suc
<1>6. Marked'
  <2>1. CASE up.phase = "prepare"
    <3>1. CASE up.todo = StatusCopies \o Volumes
      <4>1. Target = "st1" /\ up'.todo = <<"st2">> \o Volumes
        BY <1>1, <3>1, Lists DEF Target
      <4>2. ~Suc("st1")'
        BY <1>5, <2>1, <4>1 DEF Stats
      <4>. QED  BY <1>1, <2>1, <4>1, <4>2 DEF Marked
    <3>2. CASE up.todo = <<"st2">> \o Volumes /\ ~Suc("st1")
      <4>1. Target = "st2" /\ up'.todo = Volumes
        BY <1>1, <3>2, Lists DEF Target
      <4>2. ~Suc("st1")' /\ ~Suc("st2")'
        BY <1>5, <2>1, <3>2, <4>1 DEF Stats
      <4>3. Left' = Range(Volumes)
        BY <4>1 DEF Left
      <4>. QED  BY <1>1, <2>1, <4>2, <4>3 DEF Marked
    <3>3. CASE Left \subseteq Range(Volumes) /\ (Left # {} => ~Suc("st1") /\ ~Suc("st2"))
      <4>1. ~Suc("st1")' /\ ~Suc("st2")'
        BY <1>2, <1>5, <2>1, <3>3 DEF Stats
      <4>2. Left' \subseteq Range(Volumes)
        BY <1>2, <3>3
      <4>. QED  BY <1>1, <2>1, <4>1, <4>2 DEF Marked
    <3>. QED  BY <2>1, <3>1, <3>2, <3>3 DEF SInv, Marked
  <2>2. CASE up.phase \in {"mark", "fe_mark"}
    BY <1>1, <1>2, <1>5, <2>2 DEF SInv, Marked
  <2>3. CASE up.phase \in {"pits", "bins", "restore", "fe"}
    <3>1. ~Suc("st1")' /\ ~Suc("st2")'
      BY <1>5, <2>3 DEF SInv, Marked, Stats
    <3>. QED  BY <1>1, <2>3, <3>1 DEF Marked
  <2>4. CASE up.phase \notin {"prepare", "mark", "fe_mark", "pits", "bins", "restore", "fe"}
    BY <1>1, <2>4 DEF Marked
  <2>. QED  BY <2>1, <2>2, <2>3, <2>4
<1>7. Whole'
  <2>1. Target \in Parts => up.phase \in {"prepare", "bins"}
    BY <1>2, ReachFacts
  <2>2. Target = "fe_bin_1" => up.phase \in {"backup", "restore", "fe"}
    BY <1>2, ReachFacts DEF FeParts
  <2>3. up.phase = "bins" \/ (up.phase = "fe" /\ Target = "fe_bin_1")
          => Value(Target) = Data(up.img)
    BY <1>1, ValueFacts
  <2>. QED  BY <1>1, <1>2, <1>3, <1>4, <2>1, <2>2, <2>3 DEF SInv, Whole
<1>8. Vouched' /\ SucWhole'
  <2>1. Value(Target) \in Content
    BY <1>1, ValueFacts
  <2>2. Target \in Stats /\ Value(Target).s = "SUC" =>
          /\ Value(Target).sel \subseteq Parts \cup {"fe_bin_1"}
          /\ \A p \in Value(Target).sel :
               IF p \in Parts THEN flash[p] = Data(Value(Target).v) ELSE flash[p] # Torn
    <3>. SUFFICES ASSUME Target \in Stats, Value(Target).s = "SUC"
         PROVE  /\ Value(Target).sel \subseteq Parts \cup {"fe_bin_1"}
                /\ \A p \in Value(Target).sel :
                     IF p \in Parts THEN flash[p] = Data(Value(Target).v) ELSE flash[p] # Torn
      OBVIOUS
    <3>1. up.phase \in {"done", "fe_done"}
      <4>1. \A c \in Stats : c = Target => Suc(c)'
        BY <1>2, <1>3 DEF Suc
      <4>. QED  BY <1>5, <4>1
    <3>2. CASE up.phase = "done"
      <4>1. Value(Target) = Is("SUC", up.img, SelectedSet)
        BY <1>1, <3>2, ValueFacts
      <4>2. \A p \in SelectedSet : flash[p] = Data(up.img)
        BY <3>2 DEF SInv, Whole
      <4>. QED  BY <1>4, <4>1, <4>2 DEF Is
    <3>3. CASE up.phase = "fe_done"
      <4>1. Value(Target) = Is("SUC", up.img, {"fe_bin_1"})
        BY <1>1, <3>3, ValueFacts
      <4>2. flash["fe_bin_1"] = Data(up.img) /\ Data(up.img) # Torn /\ "fe_bin_1" \notin Parts
        BY <3>3, Names DEF SInv, Whole, Data, Torn, Is, Others, FeParts
      <4>. QED  BY <4>1, <4>2 DEF Is
    <3>. QED  BY <3>1, <3>2, <3>3
  <2>3. Target = "fe_bin_1" => Quiet \/ Value(Target) # Torn
    <3>1. up.phase = "backup" => Value(Target) = Erased
      BY <1>1, ValueFacts
    <3>. QED  BY <1>1, <3>1, MarkedFacts DEF Erased, Torn, Is
  <2>. QED  BY <1>1, <1>2, <2>1, <2>2, <2>3, MarkedFacts, WriteSuc
<1>. QED  BY <1>6, <1>7, <1>8 DEF SInv

\* If upg_status is before the UBI partition in the PIT, a status copy that
\* says SUC is true at every moment.
THEOREM SucIsTrue == ASSUME StatusFirst PROVE Spec => []SucWhole
<1>1. TInv /\ SInv /\ [Next]_vars => TInv' /\ SInv'
  <2>. SUFFICES ASSUME TInv, SInv, [Next]_vars PROVE SInv'
    BY StepTyped
  <2>1. ASSUME NEW c \in {"be", "be all", "bl", "fe"}, NEW i \in Images, Start(c, i)
        PROVE  SInv'
    BY <2>1, StartFacts, StillSuc
  <2>2. ASSUME NEW i \in Images, Reload(i)
        PROVE  SInv'
    BY <2>2, StillSuc DEF Reload, Idle
  <2>3. CASE Proceed
    BY <2>3, ProceedSuc
  <2>4. CASE Fail
    BY <2>4, FailFacts, StillSuc
  <2>5. CASE PowerLoss
    BY <2>5, PowerLossFacts, StillSuc DEF NoUpgrade
  <2>6. CASE UNCHANGED vars
    <3>1. SelectedSet' = SelectedSet
      BY <2>6, SelectedKept DEF vars
    <3>2. Marked' /\ Whole'
      BY <2>6, <3>1 DEF vars, SInv, Marked, Whole, Left, Suc
    <3>. QED  BY <2>6, <3>2 DEF vars, SInv, Vouched, SucWhole, Suc
  <2>. QED  BY <2>1, <2>2, <2>3, <2>4, <2>5, <2>6, SkipSuc, OpenSuc, CloseSuc DEF Next, Step
<1>2. Init => TInv /\ SInv
  BY InitTyped, InitSuc
<1>3. TInv /\ SInv => SucWhole
  BY DEF SInv
<1>. QED  BY <1>1, <1>2, <1>3, PTL DEF Spec

-----------------------------------------------------------------------------
(* A readable PIT.                                                         *)

\* Steps that leave the flash alone, with no target open before or after.
LEMMA PitStill ==
  ASSUME PInv, UNCHANGED flash, up.open = FALSE, up'.open = FALSE, hist'.pit = hist.pit
  PROVE  PInv'
<1>1. Hit(hist.pit) = hist.pit /\ Hit(hist.pit)' = hist'.pit
  BY DEF Hit
<1>2. \A c : Lost(c)' <=> Lost(c)
  BY DEF Lost
<1>. QED  BY <1>1, <1>2 DEF PInv

\* Steps that end the upgrade with a target open: the history counts it.
LEMMA PitHit ==
  ASSUME PInv, UNCHANGED flash, up'.open = FALSE, hist'.pit = Hit(hist.pit)
  PROVE  PInv'
<1>1. Hit(hist.pit)' = Hit(hist.pit)
  BY DEF Hit
<1>2. \A c : Lost(c)' <=> Lost(c)
  BY DEF Lost
<1>. QED  BY <1>1, <1>2 DEF PInv

\* A target that is no copy of the PIT leaves both as they are.
LEMMA PitElse ==
  ASSUME TInv, PInv, NEW t \in Targets \ Pits, NEW x, flash' = [flash EXCEPT ![t] = x],
         hist' = hist, ~(up.open /\ Target \in Pits), ~(up'.open /\ Target' \in Pits)
  PROVE  PInv'
<1>1. Hit(hist.pit) = hist.pit /\ Hit(hist.pit)' = hist.pit
  BY DEF Hit
<1>2. \A c \in Pits : Lost(c)' <=> Lost(c)
  BY Names DEF Lost, TInv, Typed, Pits, Others
<1>. QED  BY <1>1, <1>2 DEF PInv, Pits

\* A copy of the PIT being written is lost and counted.
LEMMA PitOpen == ASSUME TInv, PInv, Open PROVE PInv'
<1>1. /\ up'.todo = up.todo /\ up.open = FALSE /\ up'.open = TRUE /\ hist' = hist
      /\ Target \in Targets /\ Wanted(Target) /\ up.todo # <<>> /\ up.phase \in Phases
      /\ Target \in Reach(up.phase) /\ Target' = Target
  BY OpenFacts, TargetFacts DEF TInv, Typed, Target
<1>2. PICK x \in Begun : flash' = [flash EXCEPT ![Target] = x]
  BY OpenFacts
<1>3. CASE Target \notin Pits
  BY <1>1, <1>2, <1>3, PitElse
<1>4. CASE Target \in Pits
  <2>1. \A u \in Pits : flash'[u] = IF u = Target THEN x ELSE flash[u]
    BY <1>2, Names DEF TInv, Typed, Pits, Others
  <2>2. x.s # "data"
    BY <1>2, BegunFacts DEF Erased, Torn, Is
  <2>3. hist.pit \in Nat /\ Hit(hist.pit) = hist.pit /\ Hit(hist.pit)' = hist.pit + 1
    BY <1>1, <1>4 DEF Hit, TInv, Typed
  <2>4. /\ Lost("pit1")' <=> (Target = "pit1" \/ Lost("pit1"))
        /\ Lost("pit2")' <=> (Target = "pit2" \/ Lost("pit2"))
    BY <2>1, <2>2 DEF Lost, Pits
  <2>5. Lost(Target)'
    BY <1>1, <1>4, <2>1, <2>2 DEF Lost
  <2>. QED  BY <1>4, <2>3, <2>4, <2>5 DEF PInv, Pits
<1>. QED  BY <1>3, <1>4

\* A copy of the PIT written is readable again.
LEMMA PitClose == ASSUME TInv, PInv, Close PROVE PInv'
<1>1. /\ up.open /\ up'.open = FALSE /\ hist' = hist
      /\ Target \in Targets /\ Wanted(Target) /\ up.todo # <<>> /\ up.phase \in Phases
      /\ Target \in Reach(up.phase) /\ flash' = [flash EXCEPT ![Target] = Value(Target)]
  BY CloseFacts, TargetFacts DEF TInv, Typed
<1>2. CASE Target \notin Pits
  BY <1>1, <1>2, PitElse
<1>3. CASE Target \in Pits
  <2>1. \A u \in Pits : flash'[u] = IF u = Target THEN Value(Target) ELSE flash[u]
    BY <1>1, Names DEF TInv, Typed, Pits, Others
  <2>2. up.phase = "pits"
    BY <1>1, <1>3, ReachFacts
  <2>3. Value(Target).s = "data"
    BY <1>1, <2>2, ValueFacts DEF Data, Is
  <2>4. hist.pit \in Nat /\ Hit(hist.pit) = hist.pit + 1 /\ Hit(hist.pit)' = hist.pit
    BY <1>1, <1>3 DEF Hit, TInv, Typed
  <2>5. /\ Lost("pit1")' <=> (Target # "pit1" /\ Lost("pit1"))
        /\ Lost("pit2")' <=> (Target # "pit2" /\ Lost("pit2"))
    BY <2>1, <2>3 DEF Lost, Pits
  <2>6. Lost(Target)
    BY <1>1, <1>3 DEF PInv
  <2>. QED  BY <1>1, <1>3, <2>4, <2>5, <2>6 DEF PInv, Pits
<1>. QED  BY <1>2, <1>3

\* A copy of the PIT can be read at every moment, unless a second write of a
\* copy has begun since one was interrupted.
THEOREM PitIsReadable == Spec => []PitReadable
<1>1. TInv /\ PInv /\ [Next]_vars => TInv' /\ PInv'
  <2>. SUFFICES ASSUME TInv, PInv, [Next]_vars PROVE PInv'
    BY StepTyped
  <2>0. Idle => up.open = FALSE
    BY TargetFacts DEF TInv, Typed, Working
  <2>1. ASSUME NEW c \in {"be", "be all", "bl", "fe"}, NEW i \in Images, Start(c, i)
        PROVE  PInv'
    BY <2>0, <2>1, StartFacts, PitStill
  <2>2. ASSUME NEW i \in Images, Reload(i)
        PROVE  PInv'
    BY <2>0, <2>2, PitStill DEF Reload
  <2>3. CASE Proceed
    BY <2>3, ProceedFacts, PitStill DEF TInv, Typed
  <2>4. CASE Skip
    BY <2>4, SkipFacts, PitStill
  <2>5. CASE Fail
    BY <2>5, FailFacts, PitHit
  <2>6. CASE PowerLoss
    <3>1. UNCHANGED flash /\ up'.open = FALSE
      BY <2>6, PowerLossFacts DEF NoUpgrade
    <3>2. hist'.pit = Hit(hist.pit)
      BY <2>0, <2>6, PowerLossFacts DEF Hit
    <3>. QED  BY <3>1, <3>2, PitHit
  <2>7. CASE UNCHANGED vars
    BY <2>7 DEF vars, PInv, Hit, Lost, Target
  <2>. QED  BY <2>1, <2>2, <2>3, <2>4, <2>5, <2>6, <2>7, PitOpen, PitClose DEF Next, Step
<1>2. Init => TInv /\ PInv
  <2>. SUFFICES ASSUME Init PROVE PInv
    BY InitTyped
  <2>1. flash["pit1"].s = "data" /\ flash["pit2"].s = "data"
    <3>1. Pits \subseteq Targets /\ Pits \cap Stats = {}
      BY Names DEF Others, Pits, Stats
    <3>2. \A t \in Pits : flash[t] = Data(1)
      BY <3>1 DEF Init, Pits, Adpts, Stats
    <3>. QED  BY <3>2 DEF Pits, Data, Is
  <2>2. up.open = FALSE
    BY DEF Init, NoUpgrade
  <2>. QED  BY <2>1, <2>2 DEF PInv, Lost
<1>3. TInv /\ PInv => PitReadable
  <2>. SUFFICES ASSUME TInv, PInv, Hit(hist.pit) <= 1 PROVE FoundPit # 0
    BY DEF PitReadable
  <2>1. Hit(hist.pit) \in Nat
    BY DEF Hit, TInv, Typed
  <2>2. ~Lost("pit1") \/ ~Lost("pit2")
    BY <2>1 DEF PInv
  <2>3. "pit1" \in Targets /\ "pit2" \in Targets
    BY Names DEF Others, Pits
  <2>. QED  BY <2>2, <2>3, FoundFacts DEF FoundPit, Lost, Pits
<1>. QED  BY <1>1, <1>2, <1>3, PTL DEF Spec

-----------------------------------------------------------------------------
(* The key partitions.                                                     *)

Lucky == hist.cut = 0 /\ hist.fail = 0
KeyParts == Range(Keys) \ FeParts

\* A device as it was made has its adaptive PITs and its keys.
LEMMA InitKeys == ASSUME Init PROVE KInv
<1>1. \A t \in Adpts \cup KeyParts : flash[t].s = "data"
  <2>1. Adpts \cup KeyParts \subseteq Targets /\ Adpts \cap Stats = {}
    BY Names DEF Others, Adpts, Stats, KeyParts
  <2>2. KeyParts \cap (Pits \cup Adpts \cup Stats \cup FeParts) = {}
    BY Names DEF Others, KeyParts
  <2>3. PICK bak \in {Erased, Data(0)} :
          flash = [t \in Targets |->
            CASE t \in Pits \cup Adpts -> Data(1)
              [] t \in Stats -> Is("SUC", 0, Parts)
              [] t = "fe_bin_2" -> bak
              [] OTHER -> Data(0)]
    BY DEF Init
  <2>4. \A t \in Adpts \cup KeyParts : flash[t] \in {Data(0), Data(1)}
    BY <2>1, <2>2, <2>3 DEF Pits, Adpts, Stats, FeParts
  <2>. QED  BY <2>4 DEF Data, Is
<1>2. up.phase = "off" /\ up.open = FALSE /\ \A k \in Range(Keys) : ses.keys[k].s = "none"
  BY DEF Init, NoUpgrade, FreshSession, NoKeys, Is
<1>. QED  BY <1>1, <1>2 DEF KInv, KeyInv, Here, KeyParts, FePhases

\* Steps that leave the flash and the copies of the keys alone, with no target
\* open before or after, to a phase that promises no more.
LEMMA KeysStill ==
  ASSUME TInv, KInv, UNCHANGED flash, ses'.keys = ses.keys, up.open = FALSE, up'.open = FALSE,
         hist'.cut = hist.cut, hist'.fail = hist.fail,
         up'.phase = "backup" =>
           \A i, j \in 1 .. Len(up'.todo) : up'.todo[i] = up'.todo[j] => i = j,
         up'.phase \in {"backup", "restore"} /\ up'.todo # <<>> => up'.creat,
         Lucky => \A k \in KeyParts :
           /\ Here(k) \/ up'.creat
           /\ up'.phase = "backup" /\ k \in Range(up'.todo) => Here(k)
           /\ up'.phase = "restore" => Here(k) \/ k \in Range(up'.todo)
           /\ Idle' \/ up'.phase \in {"done"} \cup FePhases => Here(k)
  PROVE  KInv'
<1>. SUFFICES ASSUME Lucky PROVE KInv'
  BY DEF KInv, Lucky
<1>1. \A k : (Here(k)' <=> Here(k)) /\ (Safe(k)' <=> Safe(k)) /\ ~Opened(k) /\ ~Opened(k)'
  BY DEF Here, Safe, Opened
<1>2. \A k \in KeyParts : KeyInv(k)
  BY DEF KInv, Lucky, KeyParts
<1>3. \A k \in KeyParts : KeyInv(k)'
  BY <1>1, <1>2 DEF KeyInv, Left
<1>4. \A a \in Adpts : Here(a)'
  BY <1>1 DEF KInv, Lucky
<1>5. KeyParts' = KeyParts
  BY DEF KeyParts
<1>. QED  BY <1>3, <1>4, <1>5 DEF KInv, KeyParts

\* Idle, every key is on flash.
LEMMA IdleKeys ==
  ASSUME TInv, KInv, Lucky, Idle
  PROVE  \A k \in KeyParts : Here(k)
BY DEF KInv, KeyInv, Lucky, KeyParts

\* No key is on a list twice.
LEMMA NoRepeat ==
  ASSUME NEW s, s = <<>> \/ s = Keys
  PROVE  \A p, q \in 1 .. Len(s) : s[p] = s[q] => p = q
<1>1. CASE s = <<>>
  <2>1. \A n \in 1 .. 0 : FALSE
    OBVIOUS
  <2>2. Len(s) = 0
    BY <1>1
  <2>. QED  BY <2>1, <2>2
<1>2. CASE s = Keys
  BY <1>2, ImageAssumption
<1>. QED  BY <1>1, <1>2

\* An upgrade begins with every key on flash.
LEMMA StartKeys ==
  ASSUME TInv, KInv, NEW c \in {"be", "be all", "bl", "fe"}, NEW i \in Images, Start(c, i)
  PROVE  KInv'
<1>1. /\ Idle /\ UNCHANGED flash /\ ses'.keys = ses.keys /\ up'.open = FALSE
      /\ up'.phase \in {"fail", "backup", "fe_plan"}
      /\ up'.todo = <<>> \/ (up'.phase = "backup" /\ up'.todo = Keys /\ up'.creat)
      /\ hist'.cut = hist.cut /\ hist'.fail = hist.fail
  BY StartFacts
<1>2. up.open = FALSE
  BY <1>1, TargetFacts DEF TInv, Typed, Working
<1>3. \A p, q \in 1 .. Len(up'.todo) : up'.todo[p] = up'.todo[q] => p = q
  BY <1>1, NoRepeat
<1>. QED  BY <1>1, <1>2, <1>3, IdleKeys, KeysStill

\* No phase is reached with a key lost, and none ends for want of an
\* adaptive PIT.
LEMMA ProceedKeys == ASSUME TInv, KInv, Proceed PROVE KInv'
<1>1. /\ ~Idle /\ up.todo = <<>> /\ up.open = FALSE /\ up'.open = FALSE
      /\ UNCHANGED <<flash, hist>> /\ ses'.keys = ses.keys /\ up'.creat = up.creat
  BY ProceedFacts DEF TInv, Typed
<1>2. Left = {} /\ \A k : ~Opened(k)
  BY <1>1, RangeEmpty DEF Left, Opened
<1>3. Lucky => /\ \A k \in KeyParts : KeyInv(k)
               /\ \A a \in Adpts : Here(a)
  BY <1>2 DEF KInv, Lucky, KeyParts
<1>4. Lucky => up'.phase = Follows[up.phase] /\ up'.todo = Work(Follows[up.phase])
  <2>1. Lucky => FoundAdpt # 0
    <3>1. "adpt1" \in Targets /\ "adpt2" \in Targets
      BY Names DEF Others, Adpts
    <3>. QED  BY <1>3, <3>1, FoundFacts DEF FoundAdpt, Here, Adpts
  <2>2. PitOf[up.img] # 0
    BY <1>1, ImagePit DEF TInv, Working
  <2>. QED  BY <2>1, <2>2, ProceedFacts
<1>5. CASE Lucky
  <2>1. up'.phase # "backup" /\ up'.phase = Follows[up.phase]
    BY <1>1, <1>4, <1>5, FollowsFacts
  <2>2. up'.phase = "restore" => up'.todo = IF up.creat THEN Keys ELSE <<>>
    BY <1>4, <1>5 DEF Work
  <2>3. ASSUME NEW k \in KeyParts
        PROVE  /\ Here(k) \/ up'.creat
               /\ up'.phase = "restore" => Here(k) \/ k \in Range(up'.todo)
               /\ Idle' \/ up'.phase \in {"done"} \cup FePhases => Here(k)
    <3>1. Here(k) \/ up.creat
      BY <1>3, <1>5 DEF KeyInv
    <3>2. up'.phase = "restore" => Here(k) \/ k \in Range(up'.todo)
      BY <2>2, <3>1 DEF KeyParts
    <3>3. Idle' \/ up'.phase \in {"done"} \cup FePhases
            => up.phase \in {"restore", "done"} \cup FePhases
      <4>1. up.phase \in Phases
        BY DEF TInv, Typed
      <4>. QED  BY <1>1, <2>1, <4>1 DEF Follows, Phases, FePhases, Idle
    <3>4. Idle' \/ up'.phase \in {"done"} \cup FePhases => Here(k)
      BY <1>2, <1>3, <1>5, <3>3 DEF KeyInv
    <3>. QED  BY <1>1, <3>1, <3>2, <3>4
  <2>. QED  BY <1>1, <2>1, <2>2, <2>3, KeysStill
<1>6. CASE ~Lucky
  BY <1>1, <1>6 DEF KInv, Lucky
<1>. QED  BY <1>5, <1>6

\* A key that was not read to RAM is on flash.
LEMMA SkipKeys == ASSUME TInv, KInv, Skip PROVE KInv'
<1>1. /\ UNCHANGED <<flash, ses, hist>> /\ up'.phase = up.phase /\ up'.creat = up.creat
      /\ up.open = FALSE /\ up'.open = FALSE /\ ~Idle
      /\ up'.todo = Tail(up.todo) /\ up.todo # <<>> /\ ~Wanted(Target)
  BY SkipFacts
<1>2. Left = {Target} \cup Range(up'.todo)
  BY <1>1, TargetFacts
<1>3. up.phase \in {"bins", "restore"} /\ (up.phase = "restore" => ses.keys[Target].s = "none")
  BY <1>1 DEF Wanted
<1>4. CASE Lucky
  <2>1. \A k \in KeyParts : KeyInv(k)
    BY <1>4 DEF KInv, Lucky, KeyParts
  <2>2. up.phase = "restore" => up.creat
    BY <1>1, <1>4 DEF KInv, Lucky
  <2>3. ASSUME NEW k \in KeyParts
        PROVE  /\ Here(k) \/ up'.creat
               /\ up'.phase = "restore" => Here(k) \/ k \in Range(up'.todo)
               /\ Idle' \/ up'.phase \in {"done"} \cup FePhases => Here(k)
    <3>1. Here(k) \/ (Safe(k) /\ up.creat)
      BY <2>1 DEF KeyInv
    <3>2. up.phase = "restore" => Here(k) \/ k \in Range(up'.todo)
      <4>1. up.phase = "restore" /\ k = Target => ~Safe(k)
        BY <1>3 DEF Safe
      <4>. QED  BY <1>2, <2>1, <3>1, <4>1 DEF KeyInv
    <3>3. ~(Idle' \/ up'.phase \in {"done"} \cup FePhases)
      BY <1>1, <1>3 DEF Idle, FePhases
    <3>. QED  BY <1>1, <3>1, <3>2, <3>3
  <2>. QED  BY <1>1, <1>3, <2>2, <2>3, KeysStill
<1>5. CASE ~Lucky
  BY <1>1, <1>5 DEF KInv, Lucky
<1>. QED  BY <1>4, <1>5

\* A target being erased or written that is neither a key nor an adaptive PIT.
LEMMA OtherKeys ==
  ASSUME TInv, KInv, NEW t \in Targets, t \notin KeyParts \cup Adpts, up.phase # "backup",
         NEW x, flash' = [flash EXCEPT ![t] = x], ses' = ses, hist' = hist,
         up.todo # <<>>, t = Target, up'.phase = up.phase, up'.creat = up.creat, ~Idle,
         up'.todo = up.todo \/ up'.todo = Tail(up.todo)
  PROVE  KInv'
<1>. SUFFICES ASSUME Lucky PROVE KInv'
  BY DEF KInv, Lucky
<1>1. Adpts \subseteq Targets /\ KeyParts \subseteq Targets
  BY Names DEF Others, KeyParts
<1>2. \A u \in Adpts \cup KeyParts : (Here(u)' <=> Here(u)) /\ ~Opened(u)
  BY <1>1 DEF Here, Opened, TInv, Typed
<1>3. \A k \in KeyParts : k \in Left => k \in Left'
  <2>1. Left = {t} \cup Range(Tail(up.todo))
    BY TargetFacts
  <2>. QED  BY <2>1 DEF Left
<1>4. \A k \in KeyParts : KeyInv(k)
  BY DEF KInv, Lucky, KeyParts
<1>5. \A k \in KeyParts : KeyInv(k)'
  BY <1>2, <1>3, <1>4 DEF KeyInv, Safe, Idle
<1>6. \A a \in Adpts : Here(a)'
  BY <1>2 DEF KInv, Lucky
<1>7. up'.phase = "restore" /\ up'.todo # <<>> => up'.creat
  BY DEF KInv, Lucky
<1>. QED  BY <1>5, <1>6, <1>7 DEF KInv, KeyParts

\* Where the keys and the adaptive PITs are targets.
LEMMA KeyTargets ==
  ASSUME TInv, up.todo # <<>>
  PROVE  /\ Target \in KeyParts => up.phase \in {"backup", "restore"}
         /\ Target \in Adpts => up.phase = "adapt"
         /\ up.phase = "backup" => Target \in Range(Keys)
         /\ KeyParts \cap Adpts = {} /\ Adpts \subseteq Targets /\ KeyParts \subseteq Targets
<1>1. up.phase \in Phases /\ Target \in Reach(up.phase)
  BY TargetFacts DEF TInv, Typed
<1>2. KeyParts \cap Adpts = {} /\ Adpts \subseteq Targets /\ KeyParts \subseteq Targets
  BY Names DEF KeyParts, Others, Adpts, FeParts
<1>. QED  BY <1>1, <1>2, ReachFacts DEF KeyParts

\* A key is in RAM before its partition is erased.
LEMMA OpenKeys == ASSUME TInv, KInv, Open PROVE KInv'
<1>1. /\ up'.todo = up.todo /\ up.open = FALSE /\ up'.open = TRUE /\ hist' = hist /\ ~Idle
      /\ Target \in Targets /\ Wanted(Target) /\ up.todo # <<>> /\ up'.phase = up.phase
      /\ up'.creat = up.creat /\ Target' = Target /\ Target \in Left /\ Left' = Left
  BY OpenFacts, TargetFacts DEF Target, Left
<1>2. PICK x \in Begun : flash' = [flash EXCEPT ![Target] = x]
  BY OpenFacts
<1>3. up.phase # "backup" => ses' = ses
  BY OpenFacts
<1>4. CASE up.phase # "backup" /\ Target \notin KeyParts \cup Adpts
  BY <1>1, <1>2, <1>3, <1>4, OtherKeys
<1>5. CASE ~Lucky
  BY <1>1, <1>5 DEF KInv, Lucky
<1>6. CASE Lucky /\ (up.phase = "backup" \/ Target \in KeyParts \cup Adpts)
  <2>1. \A k \in KeyParts : KeyInv(k)
    BY <1>6 DEF KInv, Lucky, KeyParts
  <2>2. \A u \in Adpts \cup KeyParts :
          /\ u # Target => (Here(u)' <=> Here(u))
          /\ ~Opened(u) /\ (Opened(u)' <=> u = Target)
    BY <1>1, <1>2, KeyTargets DEF Here, Opened, TInv, Typed
  <2>3. up.phase \in {"backup", "restore"} => up.creat
    BY <1>1, <1>6 DEF KInv, Lucky
  <2>4. \A k \in KeyParts :
          ses'.keys[k] = IF up.phase = "backup" /\ k = Target THEN flash[k] ELSE ses.keys[k]
    <3>1. CASE up.phase = "backup"
      <4>1. ses' = [ses EXCEPT !.keys[Target] = flash[Target]] /\ Target \in Range(Keys)
        BY <1>1, <3>1, OpenFacts, KeyTargets
      <4>. QED  BY <3>1, <4>1 DEF TInv, Typed, KeyParts
    <3>2. CASE up.phase # "backup"
      BY <1>3, <3>2
    <3>. QED  BY <3>1, <3>2
  <2>5. up.phase \in {"backup", "restore", "adapt"}
    BY <1>1, <1>6, KeyTargets
  <2>6. ASSUME NEW k \in KeyParts
        PROVE  KeyInv(k)'
    <3>1. KeyInv(k) /\ ~Opened(k)
      BY <2>1, <2>2
    <3>2. CASE k # Target
      BY <1>1, <2>2, <2>4, <3>1, <3>2 DEF KeyInv, Safe, Idle
    <3>3. CASE k = Target
      <4>1. up.phase \in {"backup", "restore"} /\ up.creat
        BY <1>1, <2>3, <3>3, KeyTargets
      <4>2. up.phase = "restore" => ses.keys[k].s # "none"
        BY <1>1, <3>3 DEF Wanted
      <4>3. up.phase = "backup" => Here(k)
        BY <1>1, <3>1, <3>3 DEF KeyInv
      <4>4. Safe(k)'
        BY <2>4, <3>1, <3>3, <4>1, <4>2, <4>3 DEF KeyInv, Safe, Here
      <4>5. Opened(k)' /\ k \in Left'
        BY <1>1, <2>2, <3>3
      <4>. QED  BY <1>1, <4>1, <4>4, <4>5 DEF KeyInv, Safe, Idle, FePhases
    <3>. QED  BY <3>2, <3>3
  <2>7. \A a \in Adpts : Here(a)' \/ Opened(a)'
    BY <1>6, <2>2 DEF KInv, Lucky
  <2>8. /\ up'.phase = "backup" =>
             \A i, j \in 1 .. Len(up'.todo) : up'.todo[i] = up'.todo[j] => i = j
        /\ up'.phase \in {"backup", "restore"} /\ up'.todo # <<>> => up'.creat
    BY <1>1, <1>6 DEF KInv, Lucky
  <2>. QED  BY <2>6, <2>7, <2>8 DEF KInv, KeyParts
<1>. QED  BY <1>4, <1>5, <1>6

\* A key erased is in RAM, a key written back is on flash.
LEMMA CloseKeys == ASSUME TInv, KInv, Close PROVE KInv'
<1>1. /\ up'.todo = Tail(up.todo) /\ up.open /\ up'.open = FALSE /\ UNCHANGED <<ses, hist>>
      /\ ~Idle /\ Target \in Targets /\ Wanted(Target) /\ up.todo # <<>>
      /\ up'.phase = up.phase /\ up'.creat = up.creat /\ Left = {Target} \cup Left'
      /\ flash' = [flash EXCEPT ![Target] = Value(Target)]
      /\ up.todo \in Seq(Targets)
  BY CloseFacts, TargetFacts DEF TInv, Typed, Left
<1>2. CASE up.phase # "backup" /\ Target \notin KeyParts \cup Adpts
  BY <1>1, <1>2, OtherKeys
<1>3. CASE ~Lucky
  BY <1>1, <1>3 DEF KInv, Lucky
<1>4. CASE Lucky /\ (up.phase = "backup" \/ Target \in KeyParts \cup Adpts)
  <2>1. \A k \in KeyParts : KeyInv(k)
    BY <1>4 DEF KInv, Lucky, KeyParts
  <2>2. \A u \in Adpts \cup KeyParts :
          /\ flash'[u] = IF u = Target THEN Value(Target) ELSE flash[u]
          /\ (Opened(u) <=> u = Target) /\ ~Opened(u)'
    BY <1>1, KeyTargets DEF Opened, TInv, Typed
  <2>3. up.phase \in {"backup", "restore", "adapt"}
    BY <1>1, <1>4, KeyTargets
  <2>4. up.phase \in {"backup", "restore"} => up.creat
    BY <1>1, <1>4 DEF KInv, Lucky
  <2>5. up.phase = "backup" => Target \notin Left'
    <3>. SUFFICES ASSUME up.phase = "backup" PROVE Target \notin Left'
      OBVIOUS
    <3>1. \A i, j \in 1 .. Len(up.todo) : up.todo[i] = up.todo[j] => i = j
      BY <1>4 DEF KInv, Lucky
    <3>. QED  BY <1>1, <3>1, Injective DEF Left, Target
  <2>6. ASSUME NEW k \in KeyParts
        PROVE  KeyInv(k)'
    <3>1. KeyInv(k)
      BY <2>1
    <3>2. CASE k # Target
      <4>1. flash'[k] = flash[k] /\ ~Opened(k) /\ ~Opened(k)'
        BY <2>2, <3>2
      <4>2. k \in Left <=> k \in Left'
        BY <1>1, <3>2
      <4>. QED  BY <1>1, <3>1, <4>1, <4>2 DEF KeyInv, Here, Safe, Idle
    <3>3. CASE k = Target
      <4>1. flash'[k] = Value(Target) /\ Opened(k) /\ ~Opened(k)'
        BY <2>2, <3>3
      <4>2. up.phase \in {"backup", "restore"} /\ up.creat
        BY <1>1, <2>4, <3>3, KeyTargets
      <4>3. CASE up.phase = "backup"
        <5>1. Safe(k) /\ k \notin Left'
          BY <2>5, <3>1, <3>3, <4>1, <4>3 DEF KeyInv
        <5>. QED  BY <1>1, <3>1, <4>1, <4>2, <4>3, <5>1 DEF KeyInv, Safe, Idle, FePhases
      <4>4. CASE up.phase = "restore"
        <5>1. Value(Target) = ses.keys[k] /\ ses.keys[k].s # "none"
          BY <1>1, <3>3, <4>4, ValueFacts DEF Wanted
        <5>2. flash'[k].s = "data" /\ Safe(k)
          BY <3>1, <4>1, <5>1 DEF KeyInv, Safe
        <5>. QED  BY <1>1, <3>1, <4>1, <4>2, <4>4, <5>2 DEF KeyInv, Here, Safe, Idle, FePhases
      <4>. QED  BY <4>2, <4>3, <4>4
    <3>. QED  BY <3>2, <3>3
  <2>7. ASSUME NEW a \in Adpts
        PROVE  Here(a)'
    <3>1. CASE a # Target
      <4>1. Here(a) /\ flash'[a] = flash[a]
        BY <1>4, <2>2, <3>1 DEF KInv, Lucky
      <4>. QED  BY <4>1 DEF Here
    <3>2. CASE a = Target
      <4>1. up.phase = "adapt" /\ flash'[a] = Value(Target)
        BY <1>1, <2>2, <3>2, KeyTargets
      <4>2. Value(Target).s = "data"
        BY <1>1, <4>1, ValueFacts DEF Data, Is
      <4>. QED  BY <4>1, <4>2 DEF Here
    <3>. QED  BY <3>1, <3>2
  <2>8. up'.phase = "backup" =>
          \A i, j \in 1 .. Len(up'.todo) : up'.todo[i] = up'.todo[j] => i = j
    <3>. SUFFICES ASSUME up.phase = "backup"
         PROVE  \A i, j \in 1 .. Len(up'.todo) : up'.todo[i] = up'.todo[j] => i = j
      BY <1>1
    <3>1. \A i, j \in 1 .. Len(up.todo) : up.todo[i] = up.todo[j] => i = j
      BY <1>4 DEF KInv, Lucky
    <3>. QED  BY <1>1, <3>1, Injective
  <2>. QED  BY <1>1, <2>3, <2>4, <2>6, <2>7, <2>8 DEF KInv, KeyParts
<1>. QED  BY <1>2, <1>3, <1>4

\* Without power losses and failed writes every key partition is on flash or
\* in RAM throughout a change of the PIT, and on flash when it is over.
THEOREM KeysAreSafe == Spec => []KeysSafe
<1>1. TInv /\ KInv /\ [Next]_vars => TInv' /\ KInv'
  <2>. SUFFICES ASSUME TInv, KInv, [Next]_vars PROVE KInv'
    BY StepTyped
  <2>1. ASSUME NEW c \in {"be", "be all", "bl", "fe"}, NEW i \in Images, Start(c, i)
        PROVE  KInv'
    BY <2>1, StartKeys
  <2>2. ASSUME NEW i \in Images, Reload(i)
        PROVE  KInv'
    <3>1. UNCHANGED <<flash, up, hist>> /\ ses'.keys = ses.keys
      BY <2>2 DEF Reload, TInv, Typed
    <3>2. \A k : KeyInv(k)' <=> KeyInv(k)
      BY <3>1 DEF KeyInv, Here, Safe, Opened, Left, Idle, Target
    <3>. QED  BY <3>1, <3>2 DEF KInv, Here, Opened, Target
  <2>3. CASE Fail
    <3>1. hist'.fail # 0
      <4>1. hist'.fail = hist.fail + 1
        BY <2>3, FailFacts
      <4>2. hist.fail \in 0 .. MaxFail
        BY DEF TInv, Typed
      <4>. QED  BY <4>1, <4>2
    <3>. QED  BY <3>1 DEF KInv
  <2>4. CASE PowerLoss /\ ~Idle
    <3>1. hist'.cut # 0
      BY <2>4, PowerLossFacts DEF TInv, Typed
    <3>. QED  BY <3>1 DEF KInv
  <2>5. CASE PowerLoss /\ Idle
    <3>1. UNCHANGED <<flash, hist>> /\ up'.phase = "off" /\ up'.open = FALSE /\ up'.todo = <<>>
          /\ \A k \in Range(Keys) : ses'.keys[k].s = "none"
      BY <2>5, PowerLossFacts DEF NoUpgrade, FreshSession, NoKeys, Is
    <3>2. up.open = FALSE
      BY <2>5, TargetFacts DEF TInv, Typed, Working
    <3>3. Lucky => /\ \A k \in KeyParts : Here(k)
                   /\ \A a \in Adpts : Here(a)
      BY <2>5, <3>2, IdleKeys DEF KInv, Lucky, Opened
    <3>. QED  BY <3>1, <3>3 DEF KInv, KeyInv, Here, Lucky, KeyParts
  <2>6. CASE UNCHANGED vars
    <3>1. \A k : KeyInv(k)' <=> KeyInv(k)
      BY <2>6 DEF vars, KeyInv, Here, Safe, Opened, Left, Idle, Target
    <3>. QED  BY <2>6, <3>1 DEF vars, KInv, Here, Opened, Target
  <2>. QED  BY <2>1, <2>2, <2>3, <2>4, <2>5, <2>6, ProceedKeys, SkipKeys, OpenKeys, CloseKeys
            DEF Next, Step
<1>2. Init => TInv /\ KInv
  BY InitTyped, InitKeys
<1>3. TInv /\ KInv => KeysSafe
  BY DEF KInv, KeyInv, KeysSafe, Here, Safe
<1>. QED  BY <1>1, <1>2, <1>3, PTL DEF Spec

-----------------------------------------------------------------------------
(* The order of an FE upgrade.                                             *)

\* The lists of the FE phase.
LEMMA FeLists ==
  /\ Range(<<"fe_bin_1", "fe_bin_2", "fe_test_data">>) = {"fe_bin_1", "fe_bin_2", "fe_test_data"}
  /\ Range(<<"fe_bin_1", "fe_test_data">>) = {"fe_bin_1", "fe_test_data"}
  /\ Range(<<"fe_bin_2", "fe_test_data">>) = {"fe_bin_2", "fe_test_data"}
  /\ Range(<<"fe_test_data">>) = {"fe_test_data"}
  /\ Range(<<>>) = {}
<1>1. Range(<<"fe_bin_1", "fe_bin_2", "fe_test_data">>) = {"fe_bin_1", "fe_bin_2", "fe_test_data"}
  BY DEF Range
<1>2. Range(<<"fe_bin_1", "fe_test_data">>) = {"fe_bin_1", "fe_test_data"}
  BY DEF Range
<1>3. Range(<<"fe_bin_2", "fe_test_data">>) = {"fe_bin_2", "fe_test_data"}
  BY DEF Range
<1>4. Range(<<"fe_test_data">>) = {"fe_test_data"}
  BY DEF Range
<1>5. Range(<<>>) = {}
  BY RangeEmpty
<1>. QED  BY <1>1, <1>2, <1>3, <1>4, <1>5

FeList == {<<"fe_bin_1", "fe_bin_2", "fe_test_data">>, <<"fe_bin_1", "fe_test_data">>,
           <<"fe_bin_2", "fe_test_data">>, <<"fe_test_data">>, <<>>}

\* One target done, the next one is the next of the list.
LEMMA FeNext ==
  ASSUME NEW s \in FeList, s # <<>>
  PROVE  /\ Tail(s) \in FeList
         /\ Head(s) = "fe_bin_2" => s = <<"fe_bin_2", "fe_test_data">>
<1>1. CASE s = <<"fe_bin_1", "fe_bin_2", "fe_test_data">>
  BY <1>1 DEF FeList
<1>2. CASE s = <<"fe_bin_1", "fe_test_data">>
  BY <1>2 DEF FeList
<1>3. CASE s = <<"fe_bin_2", "fe_test_data">>
  BY <1>3 DEF FeList
<1>4. CASE s = <<"fe_test_data">>
  BY <1>4 DEF FeList
<1>. QED  BY <1>1, <1>2, <1>3, <1>4 DEF FeList

\* The FE partitions are targets, and so is the one being written.
LEMMA FeNames == FeParts \subseteq Targets /\ FeParts \cap Stats = {} /\ "fe_bin_1" # "fe_bin_2"
BY Names DEF Others, FeParts, Stats

\* The FE targets are written in their order.
LEMMA FeOpenClose ==
  ASSUME TInv, FInv, Open \/ Close
  PROVE  FInv'
<1>. SUFFICES ASSUME up.phase = "fe" PROVE FInv'
  BY OpenFacts, CloseFacts DEF FInv
<1>1. /\ up'.phase = up.phase /\ up'.img = up.img /\ up.todo # <<>> /\ Wanted(Target)
      /\ Target \in Targets /\ up.todo \in FeList
      /\ Left = {Target} \cup Range(Tail(up.todo))
  BY OpenFacts, CloseFacts, TargetFacts DEF FInv, FeList
<1>2. Target = "fe_bin_2" => up.todo = <<"fe_bin_2", "fe_test_data">>
  BY <1>1, FeNext DEF Target
<1>3. CASE Open
  <2>1. up'.todo = up.todo /\ up'.open = TRUE /\ up.open = FALSE /\ Target' = Target /\ Left' = Left
    BY <1>3, OpenFacts DEF Target, Left
  <2>2. PICK x \in Begun : flash' = [flash EXCEPT ![Target] = x]
    BY <1>3, OpenFacts
  <2>3. \A u \in FeParts : u # Target => flash'[u] = flash[u]
    BY <2>2, FeNames DEF TInv, Typed
  <2>4. "fe_bin_1" \in Left' \/ flash'["fe_bin_1"] = Data(up.img)
    BY <1>1, <2>1, <2>3 DEF FInv, FeParts
  <2>5. "fe_bin_2" \in Left' /\ ~Opened("fe_bin_2")' => flash'["fe_bin_2"] = Erased
    BY <2>1, <2>3 DEF FInv, Opened, FeParts
  <2>. QED  BY <1>1, <2>1, <2>4, <2>5 DEF FInv
<1>4. CASE Close
  <2>1. up'.todo = Tail(up.todo) /\ up'.open = FALSE /\ Left' = Range(Tail(up.todo))
        /\ flash' = [flash EXCEPT ![Target] = Value(Target)]
    BY <1>4, CloseFacts DEF Left
  <2>2. \A u \in FeParts : flash'[u] = IF u = Target THEN Value(Target) ELSE flash[u]
    BY <2>1, FeNames DEF TInv, Typed
  <2>3. Target # "fe_test_data" => Value(Target) = Data(up.img)
    BY <1>1, ValueFacts
  <2>4. "fe_bin_1" \in Left' \/ flash'["fe_bin_1"] = Data(up.img)
    BY <1>1, <2>1, <2>2, <2>3 DEF FInv, FeParts
  <2>5. "fe_bin_2" \in Left' => Target # "fe_bin_2" /\ "fe_bin_2" \in Left
    <3>1. Tail(<<"fe_bin_2", "fe_test_data">>) = <<"fe_test_data">>
      OBVIOUS
    <3>. QED  BY <1>1, <1>2, <2>1, <3>1, FeLists
  <2>6. "fe_bin_2" \in Left' => flash'["fe_bin_2"] = Erased
    BY <2>2, <2>5 DEF FInv, Opened, FeParts
  <2>7. up'.todo \in FeList
    BY <1>1, <2>1, FeNext
  <2>. QED  BY <1>1, <2>4, <2>6, <2>7 DEF FInv, FeList
<1>. QED  BY <1>3, <1>4

\* The FE phase begins with the list that the backup FE partition asks for.
LEMMA FeProceed == ASSUME TInv, FInv, Proceed PROVE FInv'
<1>1. ~Idle /\ UNCHANGED flash /\ up'.open = FALSE
  BY ProceedFacts
<1>2. CASE up'.phase # "fe"
  BY <1>2 DEF FInv
<1>3. CASE up'.phase = "fe"
  <2>1. up'.todo = FeWork
    BY <1>3, ProceedFacts DEF Work
  <2>2. up'.todo \in FeList /\ "fe_bin_1" \in Left'
    BY <2>1, FeLists DEF FeWork, FeList, Left
  <2>3. "fe_bin_2" \in Left' => flash["fe_bin_2"] = Erased
    <3>1. "fe_bin_2" \in Left' => ~FeBakExists
      BY <2>1, FeLists DEF FeWork, Left
    <3>. QED  BY <3>1, FeNames DEF FeBakExists, FeParts, TInv, Held
  <2>. QED  BY <1>1, <2>2, <2>3 DEF FInv, FeList
<1>. QED  BY <1>2, <1>3

\* An FE upgrade begins to write the backup FE partition only when it is blank
\* and the main one holds the new image whole.
THEOREM FeBackupIsLast == Spec => FeBackupLast
<1>1. TInv /\ FInv /\ [Next]_vars => TInv' /\ FInv'
  <2>. SUFFICES ASSUME TInv, FInv, [Next]_vars PROVE FInv'
    BY StepTyped
  <2>1. ASSUME NEW c \in {"be", "be all", "bl", "fe"}, NEW i \in Images, Start(c, i)
        PROVE  FInv'
    BY <2>1, StartFacts DEF FInv
  <2>2. ASSUME NEW i \in Images, Reload(i)
        PROVE  FInv'
    BY <2>2 DEF Reload, Idle, FInv
  <2>3. CASE Skip
    BY <2>3, SkipFacts DEF Wanted, FInv
  <2>4. CASE Fail
    BY <2>4, FailFacts DEF FInv
  <2>5. CASE PowerLoss
    BY <2>5, PowerLossFacts DEF NoUpgrade, FInv
  <2>6. CASE UNCHANGED vars
    BY <2>6 DEF vars, FInv, Opened, Left, Target
  <2>. QED  BY <2>1, <2>2, <2>3, <2>4, <2>5, <2>6, FeProceed, FeOpenClose DEF Next, Step
<1>2. Init => TInv /\ FInv
  BY InitTyped DEF Init, NoUpgrade, FInv
<1>3. TInv /\ FInv /\ [Next]_vars
        => [up.cmd = "fe" /\ flash'["fe_bin_2"] # flash["fe_bin_2"] =>
              flash["fe_bin_1"] = Data(up.img)
                /\ (up.open \/ flash["fe_bin_2"] = Erased)]_vars
  <2>. SUFFICES ASSUME TInv, FInv, Next, up.cmd = "fe",
                       flash'["fe_bin_2"] # flash["fe_bin_2"]
       PROVE  flash["fe_bin_1"] = Data(up.img) /\ (up.open \/ flash["fe_bin_2"] = Erased)
    OBVIOUS
  <2>1. flash' # flash
    OBVIOUS
  <2>2. Open \/ Close
    <3>1. ASSUME NEW c \in {"be", "be all", "bl", "fe"}, NEW i \in Images
          PROVE  ~Start(c, i)
      BY <2>1, StartFacts
    <3>2. ~Proceed
      BY <2>1, ProceedFacts
    <3>3. ~Skip
      BY <2>1, SkipFacts
    <3>. QED  BY <2>1, <3>1, <3>2, <3>3 DEF Next, Step, Reload, Fail, PowerLoss
  <2>3. up.todo # <<>> /\ Target \in Targets /\ \E x : flash' = [flash EXCEPT ![Target] = x]
    BY <2>2, OpenFacts, CloseFacts, TargetFacts
  <2>4. Target = "fe_bin_2"
    BY <2>3, FeNames DEF TInv, Typed, FeParts
  <2>5. up.phase = "fe"
    <3>1. ~Idle /\ Target \in Reach(up.phase) /\ up.phase \in Phases
      BY <2>2, OpenFacts, CloseFacts, TargetFacts DEF TInv, Typed
    <3>2. up.phase \in FePhases
      BY <3>1 DEF TInv, Working
    <3>3. up.phase \in {"backup", "restore", "fe"}
      BY <2>4, <3>1, ReachFacts DEF FeParts
    <3>. QED  BY <3>2, <3>3 DEF FePhases
  <2>6. up.todo = <<"fe_bin_2", "fe_test_data">>
    BY <2>3, <2>4, <2>5, FeNext DEF FInv, FeList, Target
  <2>7. "fe_bin_1" \notin Left /\ "fe_bin_2" \in Left
    BY <2>6, FeLists DEF Left
  <2>. QED  BY <2>5, <2>7 DEF FInv, Opened
<1>. QED  BY <1>1, <1>2, <1>3, PTL DEF Spec, FeBackupLast
=============================================================================
