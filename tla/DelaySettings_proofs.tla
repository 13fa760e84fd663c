------------------------ MODULE DelaySettings_proofs ------------------------
(***************************************************************************)
(* Proofs about DelaySettings, for any number of groups and pins and any   *)
(* delay chains: the memory is tested with the settings in the register    *)
(* file, and a calibrated group keeps its own.                             *)
(***************************************************************************)
EXTENDS DelaySettings, TLAPS

Tests == ReadTests \cup WriteTests

(* The manager is a record whose file has all blocks, and the DQS blocks   *)
(* have a register for the termination.                                    *)
Shaped(s) ==
    /\ s = [file |-> s.file, enabled |-> s.enabled,
            counter |-> s.counter, chain |-> s.chain]
    /\ DOMAIN s.file = Blocks
    /\ \A h \in Groups : "oct" \in DOMAIN s.file[Dqs(h)]

(* Between groups every DQS block is applied, and nothing waits.           *)
Settled(s) ==
    /\ Shaped(s)
    /\ \A h \in Groups : Applied(s, <<h, Dqs(h)>>)
    /\ s.enabled = {}

(* Group g is being calibrated: the counter selects it, no block of        *)
(* another group is enabled, and their chains are as in ch.                *)
Base(s, g, ch) ==
    /\ Shaped(s)
    /\ s.counter = g
    /\ s.enabled \subseteq IoBlocks \cup {Dqs(g)}
    /\ \A h \in Groups \ {g} : Applied(s, <<h, Dqs(h)>>)
    /\ \A c \in Chains : c[1] # g => s.chain[c] = ch[c]

(* What a chain of the group still lacks comes with the next update, and   *)
(* the termination is delayed like the strobe.                             *)
Fresh(s, g) == \A c \in Chains : c[1] = g => Applied(s, c) \/ c[2] \in s.enabled

OctAsStrobe(s, g) == s.file[Dqs(g)].oct = s.file[Strobe]

Ready(s, g, ch) == Base(s, g, ch) /\ Fresh(s, g) /\ OctAsStrobe(s, g)

(* A change of the file in the blocks B, which are enabled with it.        *)
Changes(s, t, B) ==
    /\ Shaped(t)
    /\ t.counter = s.counter
    /\ t.chain = s.chain
    /\ t.enabled = s.enabled \cup B
    /\ \A b \in Blocks \ B : t.file[b] = s.file[b]

-----------------------------------------------------------------------------
(* The blocks are what they are called.                                    *)
LEMMA BlockFacts ==
    /\ IoBlocks \subseteq Blocks
    /\ \A g \in Groups : Dqs(g) \in Blocks /\ Dqs(g) \notin IoBlocks
    /\ \A g, h \in Groups : Dqs(g) = Dqs(h) => g = h
    /\ Strobe \in IoBlocks /\ Mask \in IoBlocks /\ AllPins \subseteq IoBlocks
    /\ Strobe \notin AllPins /\ Mask \notin AllPins /\ Strobe # Mask
    /\ \A c \in Chains : c[1] \in Groups /\ c[2] \in IoBlocks \cup {Dqs(c[1])}
    /\ \A g \in Groups : <<g, Dqs(g)>> \in Chains
BY DEF IoBlocks, Blocks, Dqs, Strobe, Mask, AllPins, Pin, Chains

(* A change that enables what it touches leaves the group's chains fresh,  *)
(* and the other groups alone.                                             *)
LEMMA ChangeKeeps ==
    ASSUME NEW s, NEW t, NEW B, NEW g \in Groups, NEW ch,
           Base(s, g, ch), Changes(s, t, B), B \subseteq IoBlocks \cup {Dqs(g)}
    PROVE  Base(t, g, ch) /\ (Fresh(s, g) => Fresh(t, g))
<1>1. \A b \in Blocks \ B : t.file[b] = s.file[b]
  BY DEF Changes
<1>2. \A h \in Groups \ {g} : Applied(t, <<h, Dqs(h)>>)
  <2> TAKE h \in Groups \ {g}
  <2>1. Dqs(h) \in Blocks \ B
    BY BlockFacts
  <2> QED BY <1>1, <2>1 DEF Base, Changes, Applied
<1>3. Base(t, g, ch)
  BY <1>2 DEF Base, Changes
<1>4. ASSUME Fresh(s, g) PROVE Fresh(t, g)
  <2> SUFFICES ASSUME NEW c \in Chains, c[1] = g, c[2] \notin B
               PROVE  Applied(t, c) \/ c[2] \in t.enabled
    BY DEF Fresh, Changes
  <2>1. c[2] \in Blocks \ B
    BY BlockFacts
  <2>2. t.file[c[2]] = s.file[c[2]]
    BY <1>1, <2>1
  <2> QED BY <1>4, <2>2 DEF Fresh, Changes, Applied
<1> QED BY <1>3, <1>4

(* Enabling blocks is a change that touches no register.                   *)
LEMMA EnableChanges ==
    ASSUME NEW s, Shaped(s), NEW B
    PROVE  Changes(s, Enable(s, B), B)
<1> DEFINE E == s.enabled \cup B
           t == Enable(s, B)
<1>1. ASSUME NEW e
      PROVE  [s EXCEPT !.enabled = e] = [file |-> s.file, enabled |-> e,
            counter |-> s.counter, chain |-> s.chain]
  BY DEF Shaped
<1>2. t = [s EXCEPT !.enabled = E]
  BY DEF Enable
<1> HIDE DEF E, t
<1>3. t = [file |-> s.file, enabled |-> E,
            counter |-> s.counter, chain |-> s.chain]
  BY <1>1, <1>2
<1>4. Shaped(t)
  BY <1>3 DEF Shaped
<1>5. Changes(s, t, B)
  BY <1>3, <1>4 DEF Changes, E
<1> QED BY <1>5 DEF t

(* Writing a register of all pins leaves the other blocks alone.           *)
LEMMA SetPinsShape ==
    ASSUME NEW s, Shaped(s), NEW field, NEW f
    PROVE  /\ Shaped(SetPins(s, field, f))
           /\ SetPins(s, field, f).counter = s.counter
           /\ SetPins(s, field, f).chain = s.chain
           /\ SetPins(s, field, f).enabled = s.enabled
           /\ \A b \in Blocks \ AllPins :
                  SetPins(s, field, f).file[b] = s.file[b]
<1> DEFINE F == [b \in Blocks |->
        IF b \in AllPins THEN [s.file[b] EXCEPT ![field] = f[b[2]]]
                         ELSE s.file[b]]
<1>1. SetPins(s, field, f) = [file |-> F, enabled |-> s.enabled,
            counter |-> s.counter, chain |-> s.chain]
  BY DEF SetPins, Shaped
<1>2. DOMAIN F = Blocks /\ \A b \in Blocks \ AllPins : F[b] = s.file[b]
  OBVIOUS
<1>3. \A h \in Groups : Dqs(h) \in Blocks \ AllPins
  BY BlockFacts
<1>4. \A h \in Groups : "oct" \in DOMAIN F[Dqs(h)]
  BY <1>2, <1>3 DEF Shaped
<1> HIDE DEF F
<1> QED BY <1>1, <1>2, <1>4 DEF Shaped

(* Writing a register of a DQS block leaves its others alone.              *)
LEMMA SetDqsShape ==
    ASSUME NEW s, Shaped(s), NEW g \in Groups, NEW field, NEW v
    PROVE  /\ Shaped(SetDqs(s, g, field, v))
           /\ SetDqs(s, g, field, v).counter = s.counter
           /\ SetDqs(s, g, field, v).chain = s.chain
           /\ SetDqs(s, g, field, v).enabled = s.enabled
           /\ \A b \in Blocks \ {Dqs(g)} :
                  SetDqs(s, g, field, v).file[b] = s.file[b]
           /\ field # "oct" =>
                  SetDqs(s, g, field, v).file[Dqs(g)].oct = s.file[Dqs(g)].oct
           /\ field = "oct" => SetDqs(s, g, field, v).file[Dqs(g)].oct = v
<1> DEFINE R == [s.file[Dqs(g)] EXCEPT ![field] = v]
           F == [s.file EXCEPT ![Dqs(g)] = R]
<1>1. SetDqs(s, g, field, v) = [file |-> F, enabled |-> s.enabled,
            counter |-> s.counter, chain |-> s.chain]
  BY DEF SetDqs, Shaped
<1>2. DOMAIN R = DOMAIN s.file[Dqs(g)]
  OBVIOUS
<1>6. /\ field # "oct" => R.oct = s.file[Dqs(g)].oct
      /\ field = "oct" => R.oct = v
  BY DEF Shaped
<1> HIDE DEF R
<1>3. /\ DOMAIN F = Blocks
      /\ \A b \in Blocks \ {Dqs(g)} : F[b] = s.file[b]
      /\ F[Dqs(g)] = R
  BY BlockFacts DEF Shaped
<1> HIDE DEF F
<1>4. \A h \in Groups : "oct" \in DOMAIN F[Dqs(h)]
  <2> TAKE h \in Groups
  <2>1. CASE h = g
    BY <1>2, <1>3, <2>1 DEF Shaped
  <2>2. CASE h # g
    <3>1. Dqs(h) \in Blocks \ {Dqs(g)}
      BY <2>2, BlockFacts
    <3> QED BY <1>3, <3>1 DEF Shaped
  <2> QED BY <2>1, <2>2
<1>5. Shaped(SetDqs(s, g, field, v))
  BY <1>1, <1>3, <1>4 DEF Shaped
<1> QED BY <1>1, <1>3, <1>5, <1>6

(* Writing the register of the strobe or of the mask.                      *)
LEMMA SetIoShape ==
    ASSUME NEW s, Shaped(s), NEW b \in {Strobe, Mask}, NEW v
    PROVE  /\ Shaped(SetIo(s, b, v))
           /\ SetIo(s, b, v).counter = s.counter
           /\ SetIo(s, b, v).chain = s.chain
           /\ SetIo(s, b, v).enabled = s.enabled
           /\ \A a \in Blocks \ {b} : SetIo(s, b, v).file[a] = s.file[a]
           /\ SetIo(s, b, v).file[b] = v
<1> DEFINE F == [s.file EXCEPT ![b] = v]
<1>1. SetIo(s, b, v) = [file |-> F, enabled |-> s.enabled,
            counter |-> s.counter, chain |-> s.chain]
  BY DEF Shaped, SetIo
<1>2. /\ DOMAIN F = Blocks
      /\ \A a \in Blocks \ {b} : F[a] = s.file[a]
      /\ F[b] = v
  BY BlockFacts DEF Shaped
<1> HIDE DEF F
<1>3. \A h \in Groups : "oct" \in DOMAIN F[Dqs(h)]
  <2> TAKE h \in Groups
  <2>1. Dqs(h) \in Blocks \ {b}
    BY BlockFacts
  <2> QED BY <1>2, <2>1 DEF Shaped
<1> QED BY <1>1, <1>2, <1>3 DEF Shaped

-----------------------------------------------------------------------------
(* The procedures, as changes.                                             *)

(* scc_mgr_apply_group_dq_in_delay and _dq_out1_delay.                     *)
LEMMA ApplyPins ==
    ASSUME NEW s, Shaped(s), NEW f
    PROVE  /\ Changes(s, ApplyDqIn(s, f), AllPins)
           /\ Changes(s, ApplyDqOut1(s, f), AllPins)
<1>1. ASSUME NEW field
      PROVE  Changes(s, Enable(SetPins(s, field, f), AllPins), AllPins)
  <2>1. Changes(SetPins(s, field, f), Enable(SetPins(s, field, f), AllPins),
                AllPins)
    BY SetPinsShape, EnableChanges
  <2> QED BY <2>1, SetPinsShape DEF Changes
<1> QED BY <1>1 DEF ApplyDqIn, ApplyDqOut1

(* scc_mgr_apply_group_dm_out1_delay.                                      *)
LEMMA ApplyMask ==
    ASSUME NEW s, Shaped(s), NEW v
    PROVE  Changes(s, ApplyDmOut1(s, v), {Mask})
<1> DEFINE t == SetIo(s, Mask, v)
<1>1. /\ Shaped(t)
      /\ t.counter = s.counter /\ t.chain = s.chain /\ t.enabled = s.enabled
      /\ \A a \in Blocks \ {Mask} : t.file[a] = s.file[a]
  BY SetIoShape
<1>2. ApplyDmOut1(s, v) = Enable(t, {Mask})
  BY DEF ApplyDmOut1
<1> HIDE DEF t
<1>3. Changes(t, Enable(t, {Mask}), {Mask})
  BY <1>1, EnableChanges
<1> QED BY <1>1, <1>2, <1>3 DEF Changes

(* Setting a register of a DQS block and enabling it.                      *)
LEMMA ApplyDqs ==
    ASSUME NEW s, Shaped(s), NEW g \in Groups, NEW field, NEW v, NEW t,
           t = Enable(SetDqs(s, g, field, v), {Dqs(g)})
    PROVE  /\ Changes(s, t, {Dqs(g)})
           /\ field # "oct" => t.file[Dqs(g)].oct = s.file[Dqs(g)].oct
<1> DEFINE r == SetDqs(s, g, field, v)
<1>1. /\ Shaped(r)
      /\ r.counter = s.counter /\ r.chain = s.chain /\ r.enabled = s.enabled
      /\ \A b \in Blocks \ {Dqs(g)} : r.file[b] = s.file[b]
      /\ field # "oct" => r.file[Dqs(g)].oct = s.file[Dqs(g)].oct
  BY SetDqsShape
<1>2. t = Enable(r, {Dqs(g)})
  OBVIOUS
<1> HIDE DEF r
<1>3. Changes(r, t, {Dqs(g)})
  BY <1>1, <1>2, EnableChanges
<1>4. t.file = r.file
  BY <1>1, <1>2 DEF Enable, Shaped
<1> QED BY <1>1, <1>3, <1>4 DEF Changes

(* scc_mgr_apply_group_dqs_io_and_oct_out1 sets both registers alike.      *)
LEMMA ApplyStrobe ==
    ASSUME NEW s, Shaped(s), NEW g \in Groups, NEW v
    PROVE  /\ Changes(s, ApplyDqsIoAndOctOut1(s, g, v), {Strobe, Dqs(g)})
           /\ OctAsStrobe(ApplyDqsIoAndOctOut1(s, g, v), g)
<1> DEFINE r == SetIo(s, Strobe, v)
           q == SetDqs(r, g, "oct", v)
           t == Enable(q, {Strobe, Dqs(g)})
<1>1. /\ Shaped(r)
      /\ r.counter = s.counter /\ r.chain = s.chain /\ r.enabled = s.enabled
      /\ \A a \in Blocks \ {Strobe} : r.file[a] = s.file[a]
      /\ r.file[Strobe] = v
  BY SetIoShape
<1> HIDE DEF r
<1>2. /\ Shaped(q)
      /\ q.counter = r.counter /\ q.chain = r.chain /\ q.enabled = r.enabled
      /\ \A b \in Blocks \ {Dqs(g)} : q.file[b] = r.file[b]
      /\ q.file[Dqs(g)].oct = v
  BY <1>1, SetDqsShape
<1> HIDE DEF q
<1>3. Changes(q, t, {Strobe, Dqs(g)})
  BY <1>2, EnableChanges
<1>4. t.file = q.file
  BY <1>2 DEF Enable, Shaped
<1> HIDE DEF t
<1>5. Changes(s, t, {Strobe, Dqs(g)})
  BY <1>1, <1>2, <1>3 DEF Changes
<1>6. q.file[Strobe] = v
  BY <1>1, <1>2, BlockFacts
<1>7. OctAsStrobe(t, g)
  BY <1>2, <1>4, <1>6 DEF OctAsStrobe
<1> QED BY <1>5, <1>7 DEF t, q, r, ApplyDqsIoAndOctOut1

-----------------------------------------------------------------------------
(* What an update does.                                                    *)
Clean(s, g, ch) == Ready(s, g, ch) /\ s.enabled = {}

(* An update moves the registers of the enabled blocks, those of pins into *)
(* the selected group only, and disables all blocks.                       *)
LEMMA UpdateShape ==
    ASSUME NEW s, Shaped(s)
    PROVE  /\ Shaped(Update(s))
           /\ Update(s).file = s.file
           /\ Update(s).counter = s.counter
           /\ Update(s).enabled = {}
           /\ \A c \in Chains : Update(s).chain[c] =
                  IF /\ c[2] \in s.enabled
                     /\ c[2] \in IoBlocks => c[1] = s.counter
                  THEN s.file[c[2]] ELSE s.chain[c]
BY DEF Update, Shaped

(* After an update a group that was ready has all its settings.            *)
LEMMA UpdateCleans ==
    ASSUME NEW s, NEW g \in Groups, NEW ch, Ready(s, g, ch)
    PROVE  Clean(Update(s), g, ch)
<1> DEFINE t == Update(s)
<1>1. /\ Shaped(t) /\ t.file = s.file /\ t.counter = s.counter /\ t.enabled = {}
      /\ \A c \in Chains : t.chain[c] =
             IF c[2] \in s.enabled /\ (c[2] \in IoBlocks => c[1] = s.counter)
             THEN s.file[c[2]] ELSE s.chain[c]
  BY UpdateShape DEF Ready, Base
<1> HIDE DEF t
<1>2. ASSUME NEW c \in Chains, c[1] # g
      PROVE  t.chain[c] = s.chain[c]
  <2>1. c[2] \in s.enabled => c[2] \in IoBlocks
    BY <1>2, BlockFacts DEF Ready, Base
  <2> QED BY <1>1, <1>2, <2>1 DEF Ready, Base
<1>3. \A c \in Chains : c[1] # g => t.chain[c] = ch[c]
  BY <1>2 DEF Ready, Base
<1>4. \A h \in Groups \ {g} : Applied(t, <<h, Dqs(h)>>)
  <2> TAKE h \in Groups \ {g}
  <2> DEFINE c == <<h, Dqs(h)>>
  <2>1. c \in Chains /\ c[1] # g /\ c[2] = Dqs(h)
    BY BlockFacts
  <2> HIDE DEF c
  <2>2. Applied(s, c)
    BY DEF Ready, Base, c
  <2>3. Applied(t, c)
    BY <1>1, <1>2, <2>1, <2>2 DEF Applied
  <2> QED BY <2>3 DEF c
<1>5. Fresh(t, g)
  <2> SUFFICES ASSUME NEW c \in Chains, c[1] = g
               PROVE  Applied(t, c)
    BY DEF Fresh
  <2> QED BY <1>1 DEF Ready, Base, Fresh, Applied
<1>6. Base(t, g, ch)
  BY <1>1, <1>3, <1>4 DEF Ready, Base
<1>7. OctAsStrobe(t, g)
  BY <1>1 DEF Ready, OctAsStrobe
<1> QED BY <1>1, <1>5, <1>6, <1>7 DEF Clean, Ready, t

(* A group with all its settings is ready for more.                        *)
LEMMA CleanIsReady ==
    ASSUME NEW s, NEW g, NEW ch, Clean(s, g, ch)
    PROVE  Ready(s, g, ch)
BY DEF Clean

(* Setting delays leaves the manager ready for an update.                  *)
LEMMA ChangeReady ==
    ASSUME NEW s, NEW t, NEW B, NEW g \in Groups, NEW ch,
           Ready(s, g, ch), Changes(s, t, B), OctAsStrobe(t, g),
           B \subseteq IoBlocks \cup {Dqs(g)}
    PROVE  Ready(t, g, ch)
BY ChangeKeeps DEF Ready

(* Setting the delays of the DQ pins keeps a group ready.                  *)
LEMMA PinsReady ==
    ASSUME NEW s, NEW f, NEW g \in Groups, NEW ch, Ready(s, g, ch)
    PROVE  Ready(ApplyDqIn(s, f), g, ch) /\ Ready(ApplyDqOut1(s, f), g, ch)
<1>1. ASSUME NEW t, Changes(s, t, AllPins) PROVE Ready(t, g, ch)
  <2>1. Dqs(g) \in Blocks \ AllPins /\ Strobe \in Blocks \ AllPins
    BY BlockFacts
  <2>2. OctAsStrobe(t, g)
    BY <1>1, <2>1 DEF Changes, Ready, OctAsStrobe
  <2> QED BY <1>1, <2>2, ChangeReady, BlockFacts
<1>2. Shaped(s)
  BY DEF Ready, Base
<1> QED BY <1>1, <1>2, ApplyPins

(* Setting the delay of the mask keeps a group ready.                      *)
LEMMA MaskReady ==
    ASSUME NEW s, NEW v, NEW g \in Groups, NEW ch, Ready(s, g, ch)
    PROVE  Ready(ApplyDmOut1(s, v), g, ch)
<1> DEFINE t == ApplyDmOut1(s, v)
<1>1. Changes(s, t, {Mask})
  BY ApplyMask DEF Ready, Base
<1> HIDE DEF t
<1>2. Dqs(g) \in Blocks \ {Mask} /\ Strobe \in Blocks \ {Mask}
  BY BlockFacts
<1>3. OctAsStrobe(t, g)
  BY <1>1, <1>2 DEF Changes, Ready, OctAsStrobe
<1>4. Ready(t, g, ch)
  BY <1>1, <1>3, ChangeReady, BlockFacts
<1> QED BY <1>4 DEF t

(* So does a register of the DQS block other than the termination's.       *)
LEMMA DqsReady ==
    ASSUME NEW s, NEW v, NEW field, field # "oct", NEW g \in Groups, NEW ch,
           Ready(s, g, ch)
    PROVE  Ready(Enable(SetDqs(s, g, field, v), {Dqs(g)}), g, ch)
<1> DEFINE t == Enable(SetDqs(s, g, field, v), {Dqs(g)})
<1>1. Changes(s, t, {Dqs(g)}) /\ t.file[Dqs(g)].oct = s.file[Dqs(g)].oct
  BY ApplyDqs DEF Ready, Base
<1> HIDE DEF t
<1>2. Strobe \in Blocks \ {Dqs(g)}
  BY BlockFacts
<1>3. OctAsStrobe(t, g)
  BY <1>1, <1>2 DEF Changes, Ready, OctAsStrobe
<1>4. Ready(t, g, ch)
  BY <1>1, <1>3, ChangeReady
<1> QED BY <1>4 DEF t

(* So does delaying the strobe with its termination.                       *)
LEMMA StrobeReady ==
    ASSUME NEW s, NEW v, NEW g \in Groups, NEW ch, Ready(s, g, ch)
    PROVE  Ready(ApplyDqsIoAndOctOut1(s, g, v), g, ch)
<1> DEFINE t == ApplyDqsIoAndOctOut1(s, g, v)
<1>1. Changes(s, t, {Strobe, Dqs(g)}) /\ OctAsStrobe(t, g)
  BY ApplyStrobe DEF Ready, Base
<1> HIDE DEF t
<1>2. Ready(t, g, ch)
  BY <1>1, ChangeReady, BlockFacts
<1> QED BY <1>2 DEF t

(* The _all_ranks functions set a register and update at once.             *)
LEMMA SetDqsCleans ==
    ASSUME NEW s, NEW v, NEW field, field # "oct", NEW g \in Groups, NEW ch,
           Ready(s, g, ch)
    PROVE  Clean(SetDqsAllRanks(s, g, field, v), g, ch)
<1> DEFINE t == Enable(SetDqs(s, g, field, v), {Dqs(g)})
<1>1. Ready(t, g, ch)
  BY DqsReady
<1> HIDE DEF t
<1>2. Clean(Update(t), g, ch)
  BY <1>1, UpdateCleans
<1> QED BY <1>2 DEF SetDqsAllRanks, t

(* The output delay of a retry is applied at once, and to the strobe and   *)
(* the termination alike.                                                  *)
LEMMA AllOutDelayCleans ==
    ASSUME NEW s, NEW v, NEW g \in Groups, NEW ch, Ready(s, g, ch)
    PROVE  Clean(AllOutDelayAdd(s, g, v), g, ch)
<1> DEFINE r == ApplyDqsIoAndOctOut1(s, g, v)
           B == AllPins \cup {Mask}
           t == Enable(r, B)
<1>1. Ready(r, g, ch)
  BY StrobeReady
<1> HIDE DEF r
<1>2. Changes(r, t, B)
  BY <1>1, EnableChanges DEF Ready, Base
<1>3. t.file = r.file
  BY <1>1 DEF Enable, Shaped, Ready, Base
<1>4. B \subseteq IoBlocks \cup {Dqs(g)}
  BY BlockFacts
<1> HIDE DEF t, B
<1>5. OctAsStrobe(t, g)
  BY <1>1, <1>3 DEF Ready, OctAsStrobe
<1>6. Ready(t, g, ch)
  BY <1>1, <1>2, <1>4, <1>5, ChangeReady
<1>7. Clean(Update(t), g, ch)
  BY <1>6, UpdateCleans
<1> QED BY <1>7 DEF AllOutDelayAdd, t, B, r

(* Zeroing a group makes it fresh, whatever its pins had before.           *)
LEMMA ZeroGroupCleans ==
    ASSUME NEW s, NEW g \in Groups, NEW ch, NEW outOnly \in BOOLEAN,
           Base(s, g, ch)
    PROVE  Clean(ZeroGroup(s, g, outOnly), g, ch)
<1> DEFINE dq   == SetPins(s, "out", Each(0))
           pins == IF outOnly THEN dq ELSE SetPins(dq, "in", Each(0))
           all  == Enable(pins, AllPins)
           io   == ApplyDqsIoAndOctOut1(all, g, DqsOutReserve)
           t    == ApplyDmOut1(io, 0)
<1>1. ZeroGroup(s, g, outOnly) = Update(t)
  BY DEF ZeroGroup
<1>2. /\ Shaped(dq)
      /\ dq.counter = s.counter /\ dq.chain = s.chain /\ dq.enabled = s.enabled
      /\ \A b \in Blocks \ AllPins : dq.file[b] = s.file[b]
  BY SetPinsShape DEF Base
<1> HIDE DEF dq
<1>3. /\ Shaped(pins)
      /\ pins.counter = s.counter /\ pins.chain = s.chain
      /\ pins.enabled = s.enabled
      /\ \A b \in Blocks \ AllPins : pins.file[b] = s.file[b]
  BY <1>2, SetPinsShape
<1> HIDE DEF pins
<1>4. Changes(pins, all, AllPins)
  BY <1>3, EnableChanges
<1> HIDE DEF all
<1>5. Changes(s, all, AllPins)
  BY <1>3, <1>4 DEF Changes
<1>6. Base(all, g, ch)
  BY <1>5, ChangeKeeps, BlockFacts
<1>7. Changes(all, io, {Strobe, Dqs(g)}) /\ OctAsStrobe(io, g)
  BY <1>5, ApplyStrobe DEF Changes
<1> HIDE DEF io
<1>8. Base(io, g, ch)
  BY <1>6, <1>7, ChangeKeeps, BlockFacts
<1>9. Changes(io, t, {Mask})
  BY <1>7, ApplyMask DEF Changes
<1> HIDE DEF t
<1>10. Base(t, g, ch)
  BY <1>8, <1>9, ChangeKeeps, BlockFacts
<1>11. OctAsStrobe(t, g)
  <2>1. Dqs(g) \in Blocks \ {Mask} /\ Strobe \in Blocks \ {Mask}
    BY BlockFacts
  <2> QED BY <1>7, <1>9, <2>1 DEF Changes, OctAsStrobe
<1>12. IoBlocks \cup {Dqs(g)} \subseteq t.enabled
  BY <1>5, <1>7, <1>9 DEF Changes, IoBlocks
<1>13. Fresh(t, g)
  BY <1>12, BlockFacts DEF Fresh
<1>14. Clean(Update(t), g, ch)
  BY <1>10, <1>11, <1>13, UpdateCleans DEF Ready
<1> QED BY <1>1, <1>14

-----------------------------------------------------------------------------
(* The invariant: all that has been set is applied between two steps.      *)
IInv ==
    /\ group \in Nat
    /\ pc = "bypass" => Shaped(scc) /\ scc.enabled = {}
    /\ pc \in {"group", "latency", "done"} => Settled(scc)
    /\ pc \in Tests => group \in Groups /\ Clean(scc, group, scc.chain)

(* A step in a group ends clean, with no other group's chains touched.     *)
GroupStep ==
    /\ Clean(scc', group, scc.chain)
    /\ \/ pc' \in Tests /\ group' = group
       \/ pc' \in {"group", "failed"} /\ group' \in {group, group + 1}

(* No step changes the chains of the groups before.                        *)
Spares == \A c \in Chains : pc # "bypass" /\ c[1] < group =>
              scc'.chain[c] = scc.chain[c]

(* Groups are natural numbers.                                             *)
LEMMA GroupSize == NumGroups \in Nat /\ Groups \subseteq Nat
BY SettingsAssumption DEF SettingsAssumption, Groups

(* A clean group is settled, and the others with it.                       *)
LEMMA CleanIsSettled ==
    ASSUME NEW s, NEW g \in Groups, NEW ch, Clean(s, g, ch)
    PROVE  Settled(s)
<1>1. ASSUME NEW h \in Groups PROVE Applied(s, <<h, Dqs(h)>>)
  <2>1. CASE h = g
    <3> DEFINE c == <<h, Dqs(h)>>
    <3>1. c \in Chains /\ c[1] = g
      BY <2>1, BlockFacts
    <3> HIDE DEF c
    <3>2. Applied(s, c)
      BY <3>1 DEF Clean, Ready, Fresh
    <3> QED BY <3>2 DEF c
  <2>2. CASE h # g
    BY <2>2 DEF Clean, Ready, Base
  <2> QED BY <2>1, <2>2
<1> QED BY <1>1 DEF Settled, Clean, Ready, Base

(* What a clean group leaves to the others is what they now have.          *)
LEMMA CleanStays ==
    ASSUME NEW s, NEW g, NEW ch, Clean(s, g, ch)
    PROVE  Clean(s, g, s.chain)
BY DEF Clean, Ready, Base

(* A step in a group keeps the invariant, and spares the groups before it. *)
LEMMA GroupStepKeeps ==
    ASSUME GroupStep, group \in Groups
    PROVE  IInv' /\ Spares
<1>1. Settled(scc')
  BY CleanIsSettled DEF GroupStep
<1>2. Clean(scc', group, scc'.chain)
  BY CleanStays DEF GroupStep
<1>3. group' \in Nat
  BY GroupSize DEF GroupStep
<1>4. pc' # "bypass" /\ (pc' \in Tests => group' = group)
  BY DEF GroupStep, Tests, ReadTests, WriteTests
<1>5. IInv'
  BY <1>1, <1>2, <1>3, <1>4 DEF IInv
<1>6. Spares
  <2> SUFFICES ASSUME NEW c \in Chains, c[1] < group
               PROVE  scc'.chain[c] = scc.chain[c]
    BY DEF Spares
  <2>1. c[1] # group
    BY BlockFacts, GroupSize
  <2> QED BY <2>1 DEF GroupStep, Clean, Ready, Base
<1> QED BY <1>5, <1>6

-----------------------------------------------------------------------------
(* The ends of the stages of a group, with the manager in state s.         *)

(* Setting the output phase.                                               *)
LEMMA OutPhaseCleans ==
    ASSUME NEW s, group \in Groups, NEW ch, Ready(s, group, ch)
    PROVE  Clean(SetOutPhase(s), group, ch)
BY SetDqsCleans DEF SetOutPhase

(* A group ends with all its settings applied.                             *)
LEMMA GroupEnds ==
    ASSUME NEW s, Clean(s, group, scc.chain), GroupPasses(s) \/ GroupFails(s)
    PROVE  GroupStep
BY DEF GroupPasses, GroupFails, GroupStep

(* The next output delay, or the end of the retries.                       *)
LEMMA NextOutDelayStep ==
    ASSUME NEW s, group \in Groups, Clean(s, group, scc.chain), NextOutDelay(s)
    PROVE  GroupStep
<1>1. CASE GroupFails(s)
  BY <1>1, GroupEnds
<1>2. CASE /\ scc' = SetOutPhase(AllOutDelayAdd(s, group, d + 2))
           /\ pc' = "guaranteed" /\ group' = group
  <2> DEFINE r == AllOutDelayAdd(s, group, d + 2)
  <2>1. Clean(r, group, scc.chain)
    BY AllOutDelayCleans, CleanIsReady
  <2> HIDE DEF r
  <2>2. Clean(SetOutPhase(r), group, scc.chain)
    BY <2>1, OutPhaseCleans, CleanIsReady
  <2> QED BY <1>2, <2>2 DEF GroupStep, Tests, ReadTests, r
<1> QED BY <1>1, <1>2 DEF NextOutDelay

(* The start of a search for the DQS enable.                               *)
LEMMA StartSearchStep ==
    ASSUME NEW s, NEW t, group \in Groups, Clean(s, group, scc.chain),
           StartSearch(s, t)
    PROVE  GroupStep
<1> DEFINE dqs    == Update(ApplyDqsIn(s, group, t))
           spread == Update(ApplyDqIn(dqs, Spread))
           delay  == SetDqsAllRanks(spread, group, "enDelay", 0)
<1>1. Clean(dqs, group, scc.chain)
  BY DqsReady, CleanIsReady, UpdateCleans DEF ApplyDqsIn
<1> HIDE DEF dqs
<1>2. Clean(spread, group, scc.chain)
  BY <1>1, PinsReady, CleanIsReady, UpdateCleans
<1> HIDE DEF spread
<1>3. Clean(delay, group, scc.chain)
  BY <1>2, SetDqsCleans, CleanIsReady
<1> HIDE DEF delay
<1>4. Clean(SetDqsAllRanks(delay, group, "enPhase", 1), group, scc.chain)
  BY <1>3, SetDqsCleans, CleanIsReady
<1>5. /\ scc' = SetDqsAllRanks(delay, group, "enPhase", 1)
      /\ pc' = "search" /\ group' = group
  BY DEF StartSearch, delay, spread, dqs
<1> QED BY <1>4, <1>5 DEF GroupStep, Tests, ReadTests

(* The next DQS input delay, or the next output delay.                     *)
LEMMA NextDqsInStep ==
    ASSUME NEW s, group \in Groups, Clean(s, group, scc.chain), NextDqsIn(s)
    PROVE  GroupStep
BY StartSearchStep, NextOutDelayStep DEF NextDqsIn

(* The start of a read deskew.                                             *)
LEMMA StartReadCenterStep ==
    ASSUME NEW s, NEW isLast, group \in Groups, Clean(s, group, scc.chain),
           StartReadCenter(s, isLast)
    PROVE  GroupStep
<1>1. Clean(Update(ApplyDqIn(s, Each(0))), group, scc.chain)
  BY PinsReady, CleanIsReady, UpdateCleans
<1> QED BY <1>1 DEF StartReadCenter, GroupStep, Tests, ReadTests

(* A read deskew that fails.                                               *)
LEMMA ReadCenterFailsStep ==
    ASSUME NEW s, group \in Groups, Clean(s, group, scc.chain),
           ReadCenterFails(s)
    PROVE  GroupStep
BY GroupEnds, NextDqsInStep DEF ReadCenterFails

(* The start of a write deskew, with the outputs set back or not.          *)
LEMMA StartWriteCenterStep ==
    ASSUME NEW s, group \in Groups, Clean(s, group, scc.chain),
           StartWriteCenter(s)
    PROVE  GroupStep
<1> DEFINE out == IF d + 2 > 2 THEN ZeroGroup(s, group, TRUE) ELSE s
<1>1. Clean(out, group, scc.chain)
  BY ZeroGroupCleans DEF Clean, Ready
<1>2. /\ scc' = Update(ApplyDqOut1(out, Each(0)))
      /\ pc' = "writeLeft" /\ group' = group
  BY DEF StartWriteCenter
<1> HIDE DEF out
<1>3. Clean(Update(ApplyDqOut1(out, Each(0))), group, scc.chain)
  BY <1>1, PinsReady, CleanIsReady, UpdateCleans
<1> QED BY <1>2, <1>3 DEF GroupStep, Tests, WriteTests

(* The end of the read deskew applies what it has chosen.                  *)
LEMMA CentredCleans ==
    ASSUME NEW f, NEW v, group \in Groups, Clean(scc, group, scc.chain)
    PROVE  Clean(Centred(f, v), group, scc.chain)
<1> DEFINE r == ApplyDqIn(scc, f)
           t == ApplyDqsIn(r, group, v)
<1>1. Ready(r, group, scc.chain)
  BY PinsReady, CleanIsReady
<1> HIDE DEF r
<1>2. Ready(t, group, scc.chain)
  BY <1>1, DqsReady DEF ApplyDqsIn
<1> HIDE DEF t
<1>3. Clean(Update(t), group, scc.chain)
  BY <1>2, UpdateCleans
<1> QED BY <1>3 DEF Centred, t, r

(* The end of the write deskew applies what it has chosen.                 *)
LEMMA CenteredDmCleans ==
    ASSUME NEW v, group \in Groups, Clean(scc, group, scc.chain)
    PROVE  Clean(CenteredDm(v), group, scc.chain)
<1> DEFINE r == ApplyDqsIoAndOctOut1(scc, group, start)
           t == ApplyDmOut1(r, v)
<1>1. Ready(r, group, scc.chain)
  BY StrobeReady, CleanIsReady
<1> HIDE DEF r
<1>2. Ready(t, group, scc.chain)
  BY <1>1, MaskReady
<1> HIDE DEF t
<1>3. Clean(Update(t), group, scc.chain)
  BY <1>2, UpdateCleans
<1> QED BY <1>3 DEF CenteredDm, t, r

-----------------------------------------------------------------------------
(* The actions before the groups, and the start of a group.                *)

(* The bypass settings keep the shape of the manager.                      *)
LEMMA BypassKeeps ==
    ASSUME IInv, Bypass
    PROVE  IInv' /\ Spares
<1> DEFINE r == Select(scc, group)
           B == IoBlocks \cup {Dqs(group)}
<1>1. Shaped(scc) /\ pc = "bypass" /\ pc' = pc /\ group' \in Nat
  BY DEF IInv, Bypass
<1>2. Shaped(r)
  <2>1. r = [file |-> scc.file, enabled |-> scc.enabled,
             counter |-> group, chain |-> scc.chain]
    BY <1>1 DEF Select, Shaped
  <2> QED BY <1>1, <2>1 DEF Shaped
<1>3. scc' = Update(Enable(r, B))
  BY DEF Bypass, SetBypassMode
<1> HIDE DEF r, B
<1>4. Shaped(scc') /\ scc'.enabled = {}
  BY <1>2, <1>3, EnableChanges, UpdateShape DEF Changes
<1> QED BY <1>1, <1>4 DEF IInv, Spares, Tests, ReadTests, WriteTests

(* scc_mgr_zero_all settles every DQS block.                               *)
LEMMA ZeroDqsConfigKeeps ==
    ASSUME IInv, ZeroDqsConfig
    PROVE  IInv' /\ Spares
<1> DEFINE F == [b \in Blocks |->
        IF b \in IoBlocks THEN scc.file[b]
        ELSE [in |-> DqsInReserve, oct |-> DqsOutReserve,
              enPhase |-> 0, enDelay |-> 0, outPhase |-> 0]]
           r == [scc EXCEPT !.file = F]
           B == {Dqs(h) : h \in Groups}
           t == Enable(r, B)
<1>1. Shaped(scc) /\ pc = "bypass" /\ pc' = "group" /\ group' = 0
  BY DEF IInv, ZeroDqsConfig
<1>2. scc' = Update(t)
  BY DEF ZeroDqsConfig, ZeroAll
<1>3. DOMAIN F = Blocks /\ \A h \in Groups : "oct" \in DOMAIN F[Dqs(h)]
  <2> SUFFICES ASSUME NEW h \in Groups PROVE "oct" \in DOMAIN F[Dqs(h)]
    OBVIOUS
  <2>1. F[Dqs(h)] = [in |-> DqsInReserve, oct |-> DqsOutReserve,
              enPhase |-> 0, enDelay |-> 0, outPhase |-> 0]
    BY BlockFacts
  <2> QED BY <2>1
<1> HIDE DEF F
<1>4. r = [file |-> F, enabled |-> scc.enabled,
           counter |-> scc.counter, chain |-> scc.chain]
  BY <1>1 DEF Shaped
<1>5. Shaped(r)
  BY <1>3, <1>4 DEF Shaped
<1> HIDE DEF r
<1>6. Changes(r, t, B)
  BY <1>5, EnableChanges
<1> HIDE DEF t
<1>7. \A h \in Groups : Applied(scc', <<h, Dqs(h)>>)
  <2> TAKE h \in Groups
  <2> DEFINE c == <<h, Dqs(h)>>
  <2>1. c \in Chains /\ c[2] = Dqs(h) /\ c[2] \notin IoBlocks
    BY BlockFacts
  <2>2. c[2] \in t.enabled
    BY <1>6, <2>1 DEF Changes
  <2> HIDE DEF c
  <2>3. Applied(scc', c)
    BY <1>2, <1>6, <2>1, <2>2, UpdateShape DEF Changes, Applied
  <2> QED BY <2>3 DEF c
<1>8. Settled(scc')
  BY <1>2, <1>6, <1>7, UpdateShape DEF Settled, Changes
<1> QED BY <1>1, <1>8 DEF IInv, Spares, Tests, ReadTests, WriteTests

(* A group starts with its counter selected and all its chains set.        *)
LEMMA StartGroupKeeps ==
    ASSUME IInv, StartGroup
    PROVE  group \in Groups /\ GroupStep
<1> DEFINE r == Select(scc, group)
           z == ZeroGroup(r, group, FALSE)
<1>0. group \in Groups /\ Settled(scc)
  BY SettingsAssumption DEF SettingsAssumption, IInv, StartGroup, Groups
<1>1. group \in Groups /\ Settled(scc) /\ Shaped(scc)
  BY <1>0 DEF Settled
<1>2. r = [file |-> scc.file, enabled |-> scc.enabled,
           counter |-> group, chain |-> scc.chain]
  BY <1>1 DEF Select, Shaped
<1>3. scc' = SetOutPhase(z) /\ pc' = "guaranteed" /\ group' = group
  BY DEF StartGroup
<1> HIDE DEF r
<1>4. Base(r, group, scc.chain)
  BY <1>1, <1>2 DEF Base, Settled, Shaped, Applied
<1>5. Clean(z, group, scc.chain)
  BY <1>1, <1>4, ZeroGroupCleans
<1> HIDE DEF z
<1>6. Clean(SetOutPhase(z), group, scc.chain)
  BY <1>1, <1>5, OutPhaseCleans, CleanIsReady
<1> QED BY <1>1, <1>3, <1>6 DEF GroupStep, Tests, ReadTests

-----------------------------------------------------------------------------
(* The actions of a group.                                                 *)

(* Each action of the calibration of the reads ends clean.                 *)
LEMMA ReadStep ==
    ASSUME group \in Groups, Clean(scc, group, scc.chain),
           \/ GuaranteedReadRetry \/ GuaranteedReadFails \/ GuaranteedReadPasses
           \/ SearchStep \/ SearchFails \/ SearchSucceeds
           \/ LeftStep \/ LeftOver \/ RightStep
           \/ ReadNoWindow \/ ReadOffCenter \/ ReadCenterPasses
    PROVE  GroupStep
<1> DEFINE Good(s) == Clean(s, group, scc.chain)
<1>0. Ready(scc, group, scc.chain)
  BY CleanIsReady
<1>1. Good(SearchOver)
  BY <1>0, PinsReady, UpdateCleans DEF SearchOver
<1>2. \A v : Good(Update(ApplyDqsIn(scc, group, v)))
  BY <1>0, DqsReady, UpdateCleans DEF ApplyDqsIn
<1>3. CASE GuaranteedReadFails
  BY <1>3, NextOutDelayStep DEF GuaranteedReadFails
<1>4. CASE GuaranteedReadRetry
  <2>1. Good(SetDqsAllRanks(scc, group, "enPhase", tap))
    BY <1>0, SetDqsCleans
  <2>2. Good(scc') /\ pc' = "guaranteed" /\ group' = group
    BY <1>4, <2>1 DEF GuaranteedReadRetry
  <2> QED BY <2>2 DEF GroupStep, Tests, ReadTests
<1>5. CASE GuaranteedReadPasses
  BY <1>5, StartSearchStep DEF GuaranteedReadPasses
<1>6. CASE SearchStep
  <2>1. \A v : /\ Good(SetDqsAllRanks(scc, group, "enPhase", v))
               /\ Good(SetDqsAllRanks(scc, group, "enDelay", v))
    BY <1>0, SetDqsCleans
  <2>2. Good(scc') /\ pc' = "search" /\ group' = group
    BY <1>6, <2>1 DEF SearchStep
  <2> QED BY <2>2 DEF GroupStep, Tests, ReadTests
<1>7. CASE SearchFails
  BY <1>1, <1>7, NextDqsInStep DEF SearchFails
<1>8. CASE SearchSucceeds
  <2>1. Good(Update(ApplyDqsIn(SearchOver, group, orig)))
    BY <1>1, CleanIsReady, DqsReady, UpdateCleans DEF ApplyDqsIn
  <2> QED BY <1>8, <2>1, StartReadCenterStep DEF SearchSucceeds
<1>9. CASE LeftStep
  <2>1. Good(Update(ApplyDqIn(scc, Each(tap + 1))))
    BY <1>0, PinsReady, UpdateCleans
  <2> QED BY <1>9, <2>1 DEF LeftStep, GroupStep, Tests, ReadTests
<1>10. CASE LeftOver
  <2>1. Good(Update(ApplyDqsIn(ApplyDqIn(scc, Each(0)), group, start)))
    BY <1>0, PinsReady, DqsReady, UpdateCleans DEF ApplyDqsIn
  <2> QED BY <1>10, <2>1 DEF LeftOver, GroupStep, Tests, ReadTests
<1>11. CASE RightStep
  BY <1>2, <1>11 DEF RightStep, GroupStep, Tests, ReadTests
<1>12. CASE ReadNoWindow
  BY <1>2, <1>12, ReadCenterFailsStep DEF ReadNoWindow
<1>13. CASE ReadOffCenter
  BY <1>13, CentredCleans, ReadCenterFailsStep DEF ReadOffCenter
<1>14. CASE ReadCenterPasses
  BY <1>14, CentredCleans, GroupEnds, StartWriteCenterStep DEF ReadCenterPasses
<1> QED BY <1>3, <1>4, <1>5, <1>6, <1>7, <1>8, <1>9, <1>10, <1>11, <1>12, <1>13, <1>14

(* Each action of the calibration of the writes ends clean.                *)
LEMMA WriteStep ==
    ASSUME group \in Groups, Clean(scc, group, scc.chain),
           \/ WriteLeftStep \/ WriteLeftOver \/ StrobeStep
           \/ WriteNoWindow \/ CenterDq \/ DmStep \/ DmOver
           \/ WriteOffCenter \/ WritesPass
    PROVE  GroupStep
<1> DEFINE Good(s) == Clean(s, group, scc.chain)
<1>0. Ready(scc, group, scc.chain)
  BY CleanIsReady
<1>1. CASE WriteLeftStep
  <2>1. Good(Update(ApplyDqOut1(scc, Each(tap + 1))))
    BY <1>0, PinsReady, UpdateCleans
  <2> QED BY <1>1, <2>1 DEF WriteLeftStep, GroupStep, Tests, WriteTests
<1>2. \A f : Good(Update(ApplyDqsIoAndOctOut1(ApplyDqOut1(scc, f),
                                              group, start)))
  BY <1>0, PinsReady, StrobeReady, UpdateCleans
<1>3. CASE WriteLeftOver
  BY <1>2, <1>3 DEF WriteLeftOver, GroupStep, Tests, WriteTests
<1>4. CASE StrobeStep
  <2>1. Good(Update(ApplyDqsIoAndOctOut1(scc, group, start + tap + 1)))
    BY <1>0, StrobeReady, UpdateCleans
  <2> QED BY <1>4, <2>1 DEF StrobeStep, GroupStep, Tests, WriteTests
<1>5. CASE WriteNoWindow
  BY <1>5, GroupEnds DEF WriteNoWindow
<1>6. CASE CenterDq
  <2>1. PICK f : scc' = Update(ApplyDmOut1(
            Update(ApplyDqsIoAndOctOut1(ApplyDqOut1(scc, f), group, start)),
            OutMax))
    BY <1>6 DEF CenterDq
  <2> DEFINE dq == Update(ApplyDqsIoAndOctOut1(ApplyDqOut1(scc, f),
                                               group, start))
  <2>2. Good(dq)
    BY <1>2
  <2> HIDE DEF dq
  <2>3. Good(Update(ApplyDmOut1(dq, OutMax)))
    BY <2>2, CleanIsReady, MaskReady, UpdateCleans
  <2>4. Good(scc')
    BY <2>1, <2>3 DEF dq
  <2> QED BY <1>6, <2>4 DEF CenterDq, GroupStep, Tests, WriteTests
<1>7. CASE DmStep
  <2>1. Good(Update(ApplyDmOut1(scc, tap - 1)))
    BY <1>0, MaskReady, UpdateCleans
  <2> QED BY <1>7, <2>1 DEF DmStep, GroupStep, Tests, WriteTests
<1>8. CASE DmOver
  <2>1. Good(Update(ApplyDqsIoAndOctOut1(ApplyDmOut1(scc, 0), group, start)))
    BY <1>0, MaskReady, StrobeReady, UpdateCleans
  <2> QED BY <1>8, <2>1 DEF DmOver, GroupStep, Tests, WriteTests
<1>9. CASE WriteOffCenter
  BY <1>9, CenteredDmCleans, GroupEnds DEF WriteOffCenter
<1>10. CASE WritesPass
  BY <1>10, CenteredDmCleans, StartReadCenterStep DEF WritesPass
<1> QED BY <1>1, <1>3, <1>4, <1>5, <1>6, <1>7, <1>8, <1>9, <1>10

(* After the groups nothing is changed any more.                           *)
LEMMA EndKeeps ==
    ASSUME IInv, GroupsOver \/ LfifoOver
    PROVE  IInv' /\ Spares
<1>1. CASE GroupsOver
  BY <1>1 DEF GroupsOver, IInv, Spares, Tests, ReadTests, WriteTests
<1>2. CASE LfifoOver
  <2>1. Settled(scc) /\ group' = group /\ pc' \in {"failed", "done"}
    BY <1>2 DEF LfifoOver, IInv
  <2>2. /\ Shaped(Update(scc)) /\ Update(scc).file = scc.file
        /\ Update(scc).enabled = {}
        /\ \A c \in Chains : Update(scc).chain[c] = scc.chain[c]
    BY <2>1, UpdateShape DEF Settled
  <2>3. Settled(Update(scc))
    BY <2>1, <2>2, BlockFacts DEF Settled, Applied
  <2>4. scc' = scc \/ scc' = Update(scc)
    BY <1>2 DEF LfifoOver
  <2>5. Settled(scc') /\ Spares
    BY <2>1, <2>2, <2>3, <2>4 DEF Spares
  <2> QED BY <2>1, <2>5 DEF IInv, Tests, ReadTests, WriteTests
<1> QED BY <1>1, <1>2

-----------------------------------------------------------------------------
(* The invariant holds with the register file cleared.                     *)
LEMMA InitHolds == Init => IInv
<1> SUFFICES ASSUME Init PROVE IInv
  OBVIOUS
<1> DEFINE J == [c \in Chains |-> Junk]
<1>1. scc = [file |-> Cleared, enabled |-> {}, counter |-> 0, chain |-> J]
  BY DEF Init
<1>2. /\ DOMAIN Cleared = Blocks
      /\ \A h \in Groups : "oct" \in DOMAIN Cleared[Dqs(h)]
  <2>1. DOMAIN Cleared = Blocks
    BY DEF Cleared
  <2> SUFFICES ASSUME NEW h \in Groups PROVE "oct" \in DOMAIN Cleared[Dqs(h)]
    BY <2>1
  <2>2. /\ Dqs(h) \in Blocks /\ Dqs(h) \notin AllPins
        /\ Dqs(h) \notin {Strobe, Mask}
    BY BlockFacts
  <2>3. Cleared[Dqs(h)] = [in |-> 0, oct |-> 0,
                           enPhase |-> 0, enDelay |-> 0, outPhase |-> 0]
    BY <2>2 DEF Cleared
  <2> QED BY <2>3
<1> HIDE DEF J
<1>3. Shaped(scc) /\ scc.enabled = {}
  BY <1>1, <1>2 DEF Shaped
<1>4. pc = "bypass" /\ group = 0
  BY DEF Init
<1> QED BY <1>3, <1>4 DEF IInv, Tests, ReadTests, WriteTests

(* Every step keeps the invariant and spares the groups before.            *)
LEMMA NextKeeps ==
    ASSUME IInv, [Next]_vars
    PROVE  IInv' /\ (Spares \/ UNCHANGED vars)
<1>1. CASE UNCHANGED vars
  BY <1>1 DEF vars, IInv, locals
<1>2. CASE Bypass
  BY <1>2, BypassKeeps
<1>3. CASE ZeroDqsConfig
  BY <1>3, ZeroDqsConfigKeeps
<1>4. CASE StartGroup
  BY <1>4, StartGroupKeeps, GroupStepKeeps
<1>5. CASE \/ GuaranteedReadRetry \/ GuaranteedReadFails
           \/ GuaranteedReadPasses
           \/ SearchStep \/ SearchFails \/ SearchSucceeds
           \/ LeftStep \/ LeftOver \/ RightStep
           \/ ReadNoWindow \/ ReadOffCenter \/ ReadCenterPasses
  <2>1. pc \in Tests
    BY <1>5 DEF GuaranteedReadRetry, GuaranteedReadFails,
       GuaranteedReadPasses, SearchStep,
         SearchFails, SearchSucceeds, LeftStep, LeftOver, RightStep,
         ReadNoWindow, ReadOffCenter, ReadCenterPasses, Tests, ReadTests
  <2>2. group \in Groups /\ Clean(scc, group, scc.chain)
    BY <2>1 DEF IInv
  <2> QED BY <1>5, <2>2, ReadStep, GroupStepKeeps
<1>6. CASE \/ WriteLeftStep \/ WriteLeftOver \/ StrobeStep
           \/ WriteNoWindow \/ CenterDq \/ DmStep \/ DmOver
           \/ WriteOffCenter \/ WritesPass
  <2>1. pc \in Tests
    BY <1>6 DEF WriteLeftStep, WriteLeftOver, StrobeStep, WriteNoWindow,
         CenterDq, DmStep, DmOver, WriteOffCenter, WritesPass, Tests, WriteTests
  <2>2. group \in Groups /\ Clean(scc, group, scc.chain)
    BY <2>1 DEF IInv
  <2> QED BY <1>6, <2>2, WriteStep, GroupStepKeeps
<1>7. CASE GroupsOver \/ LfifoOver
  BY <1>7, EndKeeps
<1> QED BY <1>1, <1>2, <1>3, <1>4, <1>5, <1>6, <1>7 DEF Next

(* Between two steps the file is what the pins have.                       *)
LEMMA IInvImpliesTested == IInv => TestedAsSet
<1> SUFFICES ASSUME IInv PROVE TestedAsSet
  OBVIOUS
<1>1. ASSUME pc \in ReadTests \cup WriteTests
      PROVE  /\ \A c \in Chains : c[1] = group => Applied(scc, c)
             /\ scc.file[Dqs(group)].oct = scc.file[Strobe]
  BY <1>1 DEF IInv, Tests, Clean, Ready, Fresh, OctAsStrobe
<1>2. ASSUME pc \in {"latency", "done"}
      PROVE  /\ \A g \in Groups : Applied(scc, <<g, Dqs(g)>>)
             /\ scc.enabled = {}
  BY <1>2 DEF IInv, Settled
<1> QED BY <1>1, <1>2 DEF TestedAsSet

(* The memory is tested with the settings that the code believes to be in  *)
(* force, and all of them are in force when the calibration succeeds.      *)
THEOREM TestsSeeTheSettings == Spec => []TestedAsSet
<1>1. IInv /\ [Next]_vars => IInv'
  BY NextKeeps
<1> QED BY <1>1, InitHolds, IInvImpliesTested, PTL DEF Spec

(* Calibrating a group leaves the settings of those before it alone.       *)
THEOREM SettledGroupsStay == Spec => SettledStays
<1>1. IInv /\ [Next]_vars => IInv'
  BY NextKeeps
<1>2. IInv /\ [Next]_vars =>
          [\A c \in Chains : pc # "bypass" /\ c[1] < group =>
              scc'.chain[c] = scc.chain[c]]_vars
  BY NextKeeps DEF Spares
<1> QED BY <1>1, <1>2, InitHolds, PTL DEF Spec, SettledStays

=============================================================================
