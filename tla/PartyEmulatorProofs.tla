------------------------ MODULE PartyEmulatorProofs -------------------------
(***************************************************************************)
(* Proofs about the Party emulation: what it has put on the controller is  *)
(* remembered, and what it will restore is the user's.                     *)
(***************************************************************************)
EXTENDS PartyEmulator, QueueLemmas

-----------------------------------------------------------------------------
\* The inductive invariant.

Fields == {"native", "mode", "normal", "party"}

FlagTypes ==
    /\ pc \in {"down", "loop"} \cup Starting \cup Activating \cup Restoring \cup Syncing
    /\ caller \in {"command", "button", "timeout", "startup"}
    /\ errors \in BOOLEAN /\ changed \in BOOLEAN
    /\ expired \in BOOLEAN /\ torn \in BOOLEAN /\ unsaved \in BOOLEAN
    /\ native \in 0 .. 1 /\ actions \in Seq({"on", "off"})
    /\ faults \in 0 .. MaxFaults /\ changes \in 0 .. MaxChanges /\ commands \in 0 .. MaxCommands

ReadTypes ==
    /\ todo \in Seq(Fields)
    /\ \A field \in DOMAIN got : got[field] \in Values(field)

StateTypes ==
    /\ mem \in States /\ file \in States /\ promised \in States
    /\ mem.active \/ file.active => promised.active

ControllerTypes ==
    /\ ctl \in [native : 0 .. 1, mode : Modes, normal : Temps, party : Temps]
    /\ synthetic \subseteq {"normal", "mode"} /\ chosen \subseteq Temps

\* Where the process knows whether there is an emulation.
MemOn == Syncing \cup (Starting \ {"start"})
         \cup {"act_normal", "act_mode", "act_done", "rb_save", "rb_normal", "rb_mode", "rb_clear",
               "off_save", "off_normal", "off_mode", "off_clear"}
Knows ==
    /\ pc \in MemOn => mem.active
    /\ pc \in {"act_read", "act_save"} => ~mem.active
    /\ pc \in {"start", "loop", "down"} => got = <<>>

\* An operation has read, or has still to read, what it needs.
Three == {"party", "normal", "mode"}
HasRead ==
    /\ pc \in {"up_read", "sync_read"} => Three \subseteq DOMAIN got \cup ToSet(todo)
    /\ pc \in {"up_normal", "up_mode", "up_save", "sync_normal", "sync_mode"} => Three \subseteq DOMAIN got
    /\ pc = "act_read" => Fields \subseteq DOMAIN got \cup ToSet(todo)
    /\ pc = "act_save" => Fields \subseteq DOMAIN got

\* Unless a save has failed, the file and the memory agree on whether there is an
\* emulation, and without one nothing synthetic is on the controller.
Remembered ==
    unsaved \/ /\ mem.active <=> file.active
               /\ synthetic = {} \/ mem.active

\* A restore or a rollback takes back one datapoint after the other.
Undone ==
    /\ pc = "off_mode" => "normal" \notin synthetic
    /\ pc = "rb_mode" => "normal" \notin synthetic \/ errors
    /\ pc \in {"off_clear", "rb_clear"} => synthetic = {}

\* Where the normal setpoint may be something else than a user's choice or the recorded
\* Party temperature: before a restarted process has put it in order.
Unsettled == pc = "down" \/ pc \in Starting \/ (pc \in Restoring /\ caller = "startup")

\* The targets are choices of the user; so is the setpoint, or it is the recorded Party
\* temperature; and so is what was read of it.
Settled ==
    /\ mem.active => mem.normal \in chosen
    /\ file.active => file.normal \in chosen
    /\ "normal" \notin synthetic => ctl.normal \in chosen
    /\ mem.active /\ ~Unsettled => ctl.normal \in chosen \cup {mem.party}
HasReadNormal ==
    "normal" \in DOMAIN got =>
        /\ pc \in {"sync_read", "sync_normal"} => got.normal \in chosen \cup {mem.party}
        /\ pc \in {"up_read", "up_normal", "sync_read", "sync_normal"} => ctl.normal \in chosen \cup {got.normal}
        /\ pc \in {"act_read", "act_save"} => got.normal \in chosen
HasPutNormal == pc \in {"up_mode", "up_save"} => ctl.normal \in chosen \cup {got.party}

Targets == unsaved \/ torn \/ (Settled /\ HasReadNormal /\ HasPutNormal)

EmulationInv ==
    /\ FlagTypes /\ ReadTypes /\ StateTypes /\ ControllerTypes
    /\ Knows /\ HasRead /\ Remembered /\ Undone /\ Targets

-----------------------------------------------------------------------------
\* What the steps are made of.

\* A remembered emulation has a target of every datapoint, and keeps the others when one
\* is replaced.
LEMMA States1 ==
    ASSUME NEW s \in States
    PROVE  /\ s.active \in BOOLEAN
           /\ s.active => s.normal \in Temps /\ s.mode \in Modes /\ s.party \in Temps
           /\ ~s.active => s = Off
           /\ s.active => s \in [active : {TRUE}, normal : Temps, mode : Modes, party : Temps]
  <1>1. CASE s = Off
    <2>1. s.active = FALSE
      BY <1>1 DEF Off
    <2>2. QED
      BY <1>1, <2>1
  <1>2. CASE s \in [active : {TRUE}, normal : Temps, mode : Modes, party : Temps]
    <2>1. s.active \in {TRUE} /\ s.normal \in Temps /\ s.mode \in Modes /\ s.party \in Temps
      BY <1>2
    <2>2. s.active = TRUE
      BY <2>1
    <2>3. QED
      BY <1>2, <2>1, <2>2
  <1>3. QED
    BY <1>1, <1>2 DEF States

\* A remembered emulation with another normal temperature,
LEMMA NormalReplaced ==
    ASSUME NEW s \in States, s.active, NEW t \in Temps, NEW r, r = [s EXCEPT !.normal = t]
    PROVE  r \in States /\ r.active /\ r.normal = t /\ r.mode = s.mode /\ r.party = s.party
  <1>1. s \in [active : {TRUE}, normal : Temps, mode : Modes, party : Temps]
    BY States1
  <1>2. r \in [active : {TRUE}, normal : Temps, mode : Modes, party : Temps]
    BY <1>1
  <1>3. r.active = TRUE
    BY <1>2
  <1>4. QED
    BY <1>1, <1>2, <1>3 DEF States

\* ... with another party temperature,
LEMMA PartyReplaced ==
    ASSUME NEW s \in States, s.active, NEW t \in Temps, NEW r, r = [s EXCEPT !.party = t]
    PROVE  r \in States /\ r.active /\ r.normal = s.normal /\ r.mode = s.mode /\ r.party = t
  <1>1. s \in [active : {TRUE}, normal : Temps, mode : Modes, party : Temps]
    BY States1
  <1>2. r \in [active : {TRUE}, normal : Temps, mode : Modes, party : Temps]
    BY <1>1
  <1>3. r.active = TRUE
    BY <1>2
  <1>4. QED
    BY <1>1, <1>2, <1>3 DEF States

\* ... and with another mode.
LEMMA ModeReplaced ==
    ASSUME NEW s \in States, s.active, NEW m \in Modes, NEW r, r = [s EXCEPT !.mode = m]
    PROVE  r \in States /\ r.active /\ r.normal = s.normal /\ r.mode = m /\ r.party = s.party
  <1>1. s \in [active : {TRUE}, normal : Temps, mode : Modes, party : Temps]
    BY States1
  <1>2. r \in [active : {TRUE}, normal : Temps, mode : Modes, party : Temps]
    BY <1>1
  <1>3. r.active = TRUE
    BY <1>2
  <1>4. QED
    BY <1>1, <1>2, <1>3 DEF States

\* What a write that has an effect leaves behind.
LEMMA PutsFacts ==
    ASSUME ControllerTypes, NEW field \in {"normal", "mode"}, NEW value \in Values(field), NEW author,
           Puts(field, value, author)
    PROVE  /\ ControllerTypes' /\ chosen' = chosen
           /\ ctl'.normal = IF field = "normal" THEN value ELSE ctl.normal
           /\ synthetic' = IF author = "emulation" THEN synthetic \cup {field} ELSE synthetic \ {field}
  BY DEF Puts, ControllerTypes, Values

\* A fault stays within the bound.
LEMMA FaultFacts ==
    ASSUME FlagTypes, Fault
    PROVE  faults' \in 0 .. MaxFaults
  BY PartyAssumption DEF FlagTypes, Fault

\* The outcomes of a verified write.
Wrote(field, value, author) ==
    /\ ctl'.normal = IF field = "normal" THEN value ELSE ctl.normal
    /\ synthetic' = IF author = "emulation" THEN synthetic \cup {field} ELSE synthetic \ {field}

\* A write has an effect, or none, or fails with or without one.
LEMMA WriteFacts ==
    ASSUME FlagTypes, ControllerTypes, NEW field \in {"normal", "mode"}, NEW value \in Values(field), NEW author,
           NEW here, NEW good, NEW bad, Writes(here, field, value, author, good, bad)
    PROVE  /\ pc = here /\ ControllerTypes' /\ chosen' = chosen /\ faults' \in 0 .. MaxFaults
           /\ UNCHANGED <<native, file, actions, expired, changes, commands, unsaved>>
           /\ \/ /\ pc' = good /\ Wrote(field, value, author)
                 /\ UNCHANGED <<todo, got, caller, errors, changed>>
              \/ /\ pc' = bad
                 /\ Wrote(field, value, author) \/ (ctl' = ctl /\ synthetic' = synthetic)
                 /\ IF bad = "down" THEN Ends
                    ELSE /\ errors' \in BOOLEAN /\ (here \in {"rb_normal", "rb_mode"} => errors')
                         /\ UNCHANGED <<todo, got, caller, changed>>
  <1>1. Puts(field, value, author) => ControllerTypes' /\ chosen' = chosen /\ Wrote(field, value, author)
    BY PutsFacts DEF Wrote
  <1>2. UNCHANGED outside => ControllerTypes' /\ chosen' = chosen /\ ctl' = ctl /\ synthetic' = synthetic
    BY DEF outside, ControllerTypes
  <1>3. /\ pc = here
        /\ UNCHANGED <<native, file, actions, expired, changes, commands, unsaved>>
    BY DEF Writes, bounds
  <1>4. CASE Puts(field, value, author) /\ pc' = good /\ UNCHANGED <<local, faults>>
    BY <1>1, <1>3, <1>4 DEF local, FlagTypes
  <1>5. CASE /\ Fault /\ pc' = bad
             /\ Puts(field, value, author) \/ UNCHANGED outside
             /\ IF bad = "down" THEN Ends
                ELSE /\ errors' = (errors \/ here \in {"rb_normal", "rb_mode"})
                     /\ UNCHANGED <<todo, got, caller, changed>>
    <2>1. errors' = (errors \/ here \in {"rb_normal", "rb_mode"})
          => errors' \in BOOLEAN /\ (here \in {"rb_normal", "rb_mode"} => errors')
      BY Zenon
    <2>2. QED
      BY <1>1, <1>2, <1>3, <1>5, FaultFacts
  <1>6. QED
    BY <1>4, <1>5 DEF Writes

\* An operation that ended holds nothing.
LEMMA EndsFacts ==
    ASSUME Ends
    PROVE  /\ ReadTypes' /\ got' = <<>> /\ DOMAIN got' = {}
           /\ caller' = "command" /\ errors' = FALSE /\ changed' = FALSE
  <1>1. todo' = <<>> /\ got' = <<>> /\ caller' = "command" /\ errors' = FALSE /\ changed' = FALSE
    BY DEF Ends
  <1>2. DOMAIN <<>> = {} /\ <<>> \in Seq(Fields)
    OBVIOUS
  <1>3. QED
    BY <1>1, <1>2 DEF ReadTypes

\* The outcomes of a save.
LEMMA SaveFacts ==
    ASSUME FlagTypes, NEW here, NEW state, NEW good, NEW bad, Saves(here, state, good, bad)
    PROVE  /\ pc = here /\ faults' \in 0 .. MaxFaults
           /\ \/ pc' = good /\ file' = state /\ unsaved' = unsaved
              \/ pc' = bad /\ file' = file /\ unsaved' = TRUE
           /\ IF pc' \in {"loop", "down"} THEN Ends ELSE UNCHANGED <<todo, got, caller, errors, changed>>
           /\ UNCHANGED <<native, actions, ctl, synthetic, chosen, expired, changes, commands, promised, torn>>
  <1>1. /\ pc = here /\ UNCHANGED <<native, actions, ctl, synthetic, chosen, expired, changes, commands, promised, torn>>
        /\ IF pc' \in {"loop", "down"} THEN Ends ELSE UNCHANGED <<todo, got, caller, errors, changed>>
    BY DEF Saves, Goes, outside, bounds, notes, local
  <1>2. CASE file' = state /\ pc' = good /\ UNCHANGED <<faults, unsaved>>
    BY <1>1, <1>2 DEF FlagTypes
  <1>3. CASE Fault /\ pc' = bad /\ unsaved' = TRUE /\ UNCHANGED file
    BY <1>1, <1>3, FaultFacts
  <1>4. QED
    BY <1>2, <1>3 DEF Saves

\* The outcomes of a read: it fails and ends the operation, or the next datapoint is known.
LEMMA ReadFacts ==
    ASSUME FlagTypes, ReadTypes, ControllerTypes, NEW here, NEW good, NEW bad, Reads(here, good, bad)
    PROVE  /\ pc = here /\ faults' \in 0 .. MaxFaults /\ ReadTypes'
           /\ UNCHANGED <<mem, native, file, actions, ctl, synthetic, chosen, expired, changes, commands,
                          promised, torn, unsaved>>
           /\ \/ pc' = bad /\ Ends
              \/ /\ pc' = IF todo' = <<>> THEN good ELSE here
                 /\ UNCHANGED <<caller, errors, changed>>
                 /\ DOMAIN got' \cup ToSet(todo') = DOMAIN got \cup ToSet(todo)
                 /\ todo' = <<>> => ToSet(todo') = {}
                 /\ \A field \in DOMAIN got' :
                      got'[field] = ctl[field] \/ (field \in DOMAIN got /\ got'[field] = got[field])
  <1>1. /\ pc = here /\ todo # <<>>
        /\ UNCHANGED <<mem, native, file, actions, ctl, synthetic, chosen, expired, changes, commands,
                       promised, torn, unsaved>>
    BY DEF Reads, outside, bounds, notes
  <1>2. CASE Fault /\ pc' = bad /\ Ends
    BY <1>1, <1>2, FaultFacts, EndsFacts
  <1>3. CASE /\ got' = [field \in DOMAIN got \cup {Head(todo)} |->
                          IF field = Head(todo) THEN ctl[field] ELSE got[field]]
             /\ todo' = Tail(todo)
             /\ pc' = IF todo' = <<>> THEN good ELSE here
             /\ UNCHANGED <<caller, errors, changed, faults>>
    <2>1. todo \in Seq(Fields) /\ todo # <<>>
      BY <1>1 DEF ReadTypes
    <2>2. /\ Head(todo) \in Fields /\ todo' \in Seq(Fields)
          /\ ToSet(todo) = ToSet(todo') \cup {Head(todo)}
      BY <1>3, <2>1, TailMembers
    <2>3. \A field \in Fields : ctl[field] \in Values(field)
      BY DEF Fields, Values, ControllerTypes
    <2>4. /\ DOMAIN got' = DOMAIN got \cup {Head(todo)}
          /\ \A field \in DOMAIN got' : got'[field] = IF field = Head(todo) THEN ctl[field] ELSE got[field]
      BY <1>3
    <2>5. ReadTypes'
      BY <2>2, <2>3, <2>4 DEF ReadTypes
    <2>6. DOMAIN got' \cup ToSet(todo') = DOMAIN got \cup ToSet(todo)
      BY <2>2, <2>4
    <2>7. todo' = <<>> => ToSet(todo') = {}
      BY <2>2, Members
    <2>8. \A field \in DOMAIN got' :
            got'[field] = ctl[field] \/ (field \in DOMAIN got /\ got'[field] = got[field])
      BY <2>4
    <2>9. QED
      BY <1>1, <1>3, <2>5, <2>6, <2>7 DEF FlagTypes
  <1>4. QED
    BY <1>2, <1>3 DEF Reads

\* The writes of the operations keep the invariant: recover_startup brings the party
\* temperature back,
LEMMA UpNormalInv ==
    ASSUME EmulationInv, UpNormal
    PROVE  EmulationInv'
  <1>0. /\ FlagTypes /\ ReadTypes /\ StateTypes /\ ControllerTypes
        /\ Knows /\ HasRead /\ Remembered /\ Undone /\ Targets
    BY DEF EmulationInv
  <1>1. /\ pc = "up_normal" /\ mem.active /\ got.party \in Values("normal")
        /\ mem' = mem /\ promised' = promised /\ torn' = torn
    <2>1. pc = "up_normal" /\ mem' = mem /\ promised' = promised /\ torn' = torn
      BY DEF UpNormal, Writes, notes
    <2>2. mem.active
      BY <1>0, <2>1 DEF Knows, MemOn, Starting
    <2>3. got.party \in Values("normal")
      BY <1>0, <2>1, <2>2, States1, PartyAssumption DEF HasRead, Three, ReadTypes, Values
    <2>4. QED
      BY <2>1, <2>2, <2>3
  <1>2. /\ ControllerTypes' /\ chosen' = chosen /\ faults' \in 0 .. MaxFaults
        /\ UNCHANGED <<native, file, actions, expired, changes, commands, unsaved>>
        /\ \/ /\ pc' = "up_mode" /\ UNCHANGED <<todo, got, caller, errors, changed>>
              /\ IF got.normal # got.party THEN Wrote("normal", got.party, "emulation") ELSE UNCHANGED <<ctl, synthetic>>
           \/ /\ pc' = "down"
              /\ Wrote("normal", got.party, "emulation") \/ (ctl' = ctl /\ synthetic' = synthetic)
              /\ Ends
    <2>1. CASE got.normal # got.party
      BY <1>0, <1>1, <2>1, WriteFacts DEF UpNormal
    <2>2. CASE ~(got.normal # got.party)
      BY <1>0, <1>1, <2>2 DEF UpNormal, outside, bounds, local, ControllerTypes, FlagTypes
    <2>3. QED
      BY <2>1, <2>2
  <1>3. FlagTypes'
    BY <1>0, <1>1, <1>2, EndsFacts DEF FlagTypes, Starting
  <1>4. ReadTypes'
    BY <1>0, <1>1, <1>2, EndsFacts DEF ReadTypes
  <1>5. StateTypes'
    BY <1>0, <1>1, <1>2, EndsFacts DEF StateTypes
  <1>6. Knows' /\ HasRead'
    BY <1>0, <1>1, <1>2, EndsFacts DEF Knows, HasRead
  <1>7. Remembered' /\ Undone'
    BY <1>0, <1>1, <1>2, EndsFacts DEF Remembered, Undone
  <1>8. Targets'
    BY <1>0, <1>1, <1>2, EndsFacts
       DEF Targets, Settled, Unsettled, HasReadNormal, HasPutNormal, HasRead, Three, Starting, Wrote
  <1>9. QED
    BY <1>2, <1>3, <1>4, <1>5, <1>6, <1>7, <1>8 DEF EmulationInv

\* ... and the mode of the emulation.
LEMMA UpModeInv ==
    ASSUME EmulationInv, UpMode
    PROVE  EmulationInv'
  <1>0. /\ FlagTypes /\ ReadTypes /\ StateTypes /\ ControllerTypes
        /\ Knows /\ HasRead /\ Remembered /\ Undone /\ Targets
    BY DEF EmulationInv
  <1>1. /\ pc = "up_mode" /\ mem.active /\ Four \in Values("mode")
        /\ mem' = mem /\ promised' = promised /\ torn' = torn
    <2>1. pc = "up_mode" /\ mem' = mem /\ promised' = promised /\ torn' = torn
      BY DEF UpMode, Writes, notes
    <2>2. mem.active
      BY <1>0, <2>1 DEF Knows, MemOn, Starting
    <2>3. Four \in Values("mode")
      BY <1>0, <2>1, <2>2, States1, PartyAssumption DEF Values
    <2>4. QED
      BY <2>1, <2>2, <2>3
  <1>2. /\ ControllerTypes' /\ chosen' = chosen /\ faults' \in 0 .. MaxFaults
        /\ UNCHANGED <<native, file, actions, expired, changes, commands, unsaved>>
        /\ \/ /\ pc' = "up_save" /\ UNCHANGED <<todo, got, caller, errors, changed>>
              /\ IF got.mode # Four THEN Wrote("mode", Four, "emulation") ELSE UNCHANGED <<ctl, synthetic>>
           \/ /\ pc' = "down"
              /\ Wrote("mode", Four, "emulation") \/ (ctl' = ctl /\ synthetic' = synthetic)
              /\ Ends
    <2>1. CASE got.mode # Four
      BY <1>0, <1>1, <2>1, WriteFacts DEF UpMode
    <2>2. CASE ~(got.mode # Four)
      BY <1>0, <1>1, <2>2 DEF UpMode, outside, bounds, local, ControllerTypes, FlagTypes
    <2>3. QED
      BY <2>1, <2>2
  <1>3. FlagTypes'
    BY <1>0, <1>1, <1>2, EndsFacts DEF FlagTypes, Starting
  <1>4. ReadTypes'
    BY <1>0, <1>1, <1>2, EndsFacts DEF ReadTypes
  <1>5. StateTypes'
    BY <1>0, <1>1, <1>2, EndsFacts DEF StateTypes
  <1>6. Knows' /\ HasRead'
    BY <1>0, <1>1, <1>2, EndsFacts DEF Knows, HasRead
  <1>7. Remembered' /\ Undone'
    BY <1>0, <1>1, <1>2, EndsFacts DEF Remembered, Undone
  <1>8. Targets'
    BY <1>0, <1>1, <1>2, EndsFacts
       DEF Targets, Settled, Unsettled, HasReadNormal, HasPutNormal, Starting, Wrote
  <1>9. QED
    BY <1>2, <1>3, <1>4, <1>5, <1>6, <1>7, <1>8 DEF EmulationInv

\* activate writes the party temperature,
LEMMA ActNormalInv ==
    ASSUME EmulationInv, ActNormal
    PROVE  EmulationInv'
  <1>0. /\ FlagTypes /\ ReadTypes /\ StateTypes /\ ControllerTypes
        /\ Knows /\ HasRead /\ Remembered /\ Undone /\ Targets
    BY DEF EmulationInv
  <1>1. /\ pc = "act_normal" /\ mem.active /\ mem.party \in Values("normal")
        /\ mem' = mem /\ promised' = promised /\ torn' = torn
    <2>1. pc = "act_normal" /\ mem' = mem /\ promised' = promised /\ torn' = torn
      BY DEF ActNormal, Writes, notes
    <2>2. mem.active
      BY <1>0, <2>1 DEF Knows, MemOn, Starting
    <2>3. mem.party \in Values("normal")
      BY <1>0, <2>1, <2>2, States1, PartyAssumption DEF StateTypes, Values
    <2>4. QED
      BY <2>1, <2>2, <2>3
  <1>2. /\ ControllerTypes' /\ chosen' = chosen /\ faults' \in 0 .. MaxFaults
        /\ UNCHANGED <<native, file, actions, expired, changes, commands, unsaved>>
        /\ \/ /\ pc' = "act_mode" /\ UNCHANGED <<todo, got, caller, errors, changed>>
              /\ IF mem.normal # mem.party THEN Wrote("normal", mem.party, "emulation") ELSE UNCHANGED <<ctl, synthetic>>
           \/ /\ pc' = "rb_save"
              /\ Wrote("normal", mem.party, "emulation") \/ (ctl' = ctl /\ synthetic' = synthetic)
              /\ errors' \in BOOLEAN /\ UNCHANGED <<todo, got, caller, changed>>
    <2>1. CASE mem.normal # mem.party
      BY <1>0, <1>1, <2>1, WriteFacts DEF ActNormal
    <2>2. CASE ~(mem.normal # mem.party)
      BY <1>0, <1>1, <2>2 DEF ActNormal, outside, bounds, local, ControllerTypes, FlagTypes
    <2>3. QED
      BY <2>1, <2>2
  <1>3. FlagTypes'
    BY <1>0, <1>1, <1>2, EndsFacts DEF FlagTypes, Activating
  <1>4. ReadTypes'
    BY <1>0, <1>1, <1>2, EndsFacts DEF ReadTypes
  <1>5. StateTypes'
    BY <1>0, <1>1, <1>2, EndsFacts DEF StateTypes
  <1>6. Knows' /\ HasRead'
    BY <1>0, <1>1, <1>2, EndsFacts DEF Knows, HasRead
  <1>7. Remembered' /\ Undone'
    BY <1>0, <1>1, <1>2, EndsFacts DEF Remembered, Undone
  <1>8. Targets'
    BY <1>0, <1>1, <1>2, EndsFacts
       DEF Targets, Settled, Unsettled, HasReadNormal, HasPutNormal, Starting, Restoring, Wrote
  <1>9. QED
    BY <1>2, <1>3, <1>4, <1>5, <1>6, <1>7, <1>8 DEF EmulationInv

\* ... and the mode.
LEMMA ActModeInv ==
    ASSUME EmulationInv, ActMode
    PROVE  EmulationInv'
  <1>0. /\ FlagTypes /\ ReadTypes /\ StateTypes /\ ControllerTypes
        /\ Knows /\ HasRead /\ Remembered /\ Undone /\ Targets
    BY DEF EmulationInv
  <1>1. /\ pc = "act_mode" /\ mem.active /\ Four \in Values("mode")
        /\ mem' = mem /\ promised' = promised /\ torn' = torn
    <2>1. pc = "act_mode" /\ mem' = mem /\ promised' = promised /\ torn' = torn
      BY DEF ActMode, Writes, notes
    <2>2. mem.active
      BY <1>0, <2>1 DEF Knows, MemOn, Starting
    <2>3. Four \in Values("mode")
      BY <1>0, <2>1, <2>2, States1, PartyAssumption DEF Values
    <2>4. QED
      BY <2>1, <2>2, <2>3
  <1>2. /\ ControllerTypes' /\ chosen' = chosen /\ faults' \in 0 .. MaxFaults
        /\ UNCHANGED <<native, file, actions, expired, changes, commands, unsaved>>
        /\ \/ /\ pc' = "act_done" /\ UNCHANGED <<todo, got, caller, errors, changed>>
              /\ Wrote("mode", Four, "emulation")
           \/ /\ pc' = "rb_save"
              /\ Wrote("mode", Four, "emulation") \/ (ctl' = ctl /\ synthetic' = synthetic)
              /\ errors' \in BOOLEAN /\ UNCHANGED <<todo, got, caller, changed>>
    BY <1>0, <1>1, WriteFacts DEF ActMode, FlagTypes
  <1>3. FlagTypes'
    BY <1>0, <1>1, <1>2, EndsFacts DEF FlagTypes, Activating
  <1>4. ReadTypes'
    BY <1>0, <1>1, <1>2, EndsFacts DEF ReadTypes
  <1>5. StateTypes'
    BY <1>0, <1>1, <1>2, EndsFacts DEF StateTypes
  <1>6. Knows' /\ HasRead'
    BY <1>0, <1>1, <1>2, EndsFacts DEF Knows, HasRead
  <1>7. Remembered' /\ Undone'
    BY <1>0, <1>1, <1>2, EndsFacts DEF Remembered, Undone
  <1>8. Targets'
    BY <1>0, <1>1, <1>2, EndsFacts
       DEF Targets, Settled, Unsettled, HasReadNormal, HasPutNormal, Starting, Restoring, Wrote
  <1>9. QED
    BY <1>2, <1>3, <1>4, <1>5, <1>6, <1>7, <1>8 DEF EmulationInv

\* rollback_activation restores the normal temperature,
LEMMA RollbackNormalInv ==
    ASSUME EmulationInv, RollbackNormal
    PROVE  EmulationInv'
  <1>0. /\ FlagTypes /\ ReadTypes /\ StateTypes /\ ControllerTypes
        /\ Knows /\ HasRead /\ Remembered /\ Undone /\ Targets
    BY DEF EmulationInv
  <1>1. /\ pc = "rb_normal" /\ mem.active /\ mem.normal \in Values("normal")
        /\ mem' = mem /\ promised' = promised /\ torn' = torn
    <2>1. pc = "rb_normal" /\ mem' = mem /\ promised' = promised /\ torn' = torn
      BY DEF RollbackNormal, Writes, notes
    <2>2. mem.active
      BY <1>0, <2>1 DEF Knows, MemOn, Starting
    <2>3. mem.normal \in Values("normal")
      BY <1>0, <2>1, <2>2, States1, PartyAssumption DEF StateTypes, Values
    <2>4. QED
      BY <2>1, <2>2, <2>3
  <1>2. /\ ControllerTypes' /\ chosen' = chosen /\ faults' \in 0 .. MaxFaults
        /\ UNCHANGED <<native, file, actions, expired, changes, commands, unsaved>>
        /\ \/ /\ pc' = "rb_mode" /\ UNCHANGED <<todo, got, caller, errors, changed>>
              /\ Wrote("normal", mem.normal, "user")
           \/ /\ pc' = "rb_mode"
              /\ Wrote("normal", mem.normal, "user") \/ (ctl' = ctl /\ synthetic' = synthetic)
              /\ errors' \in BOOLEAN /\ errors' /\ UNCHANGED <<todo, got, caller, changed>>
    BY <1>0, <1>1, WriteFacts DEF RollbackNormal, FlagTypes
  <1>3. FlagTypes'
    BY <1>0, <1>1, <1>2, EndsFacts DEF FlagTypes, Activating
  <1>4. ReadTypes'
    BY <1>0, <1>1, <1>2, EndsFacts DEF ReadTypes
  <1>5. StateTypes'
    BY <1>0, <1>1, <1>2, EndsFacts DEF StateTypes
  <1>6. Knows' /\ HasRead'
    BY <1>0, <1>1, <1>2, EndsFacts DEF Knows, HasRead
  <1>7. Remembered' /\ Undone'
    BY <1>0, <1>1, <1>2, EndsFacts DEF Remembered, Undone, Wrote
  <1>8. Targets'
    BY <1>0, <1>1, <1>2, EndsFacts
       DEF Targets, Settled, Unsettled, HasReadNormal, HasPutNormal, Starting, Restoring, Wrote
  <1>9. QED
    BY <1>2, <1>3, <1>4, <1>5, <1>6, <1>7, <1>8 DEF EmulationInv

\* ... and the user's mode.
LEMMA RollbackModeInv ==
    ASSUME EmulationInv, RollbackMode
    PROVE  EmulationInv'
  <1>0. /\ FlagTypes /\ ReadTypes /\ StateTypes /\ ControllerTypes
        /\ Knows /\ HasRead /\ Remembered /\ Undone /\ Targets
    BY DEF EmulationInv
  <1>1. /\ pc = "rb_mode" /\ mem.active /\ mem.mode \in Values("mode")
        /\ mem' = mem /\ promised' = promised /\ torn' = torn
    <2>1. pc = "rb_mode" /\ mem' = mem /\ promised' = promised /\ torn' = torn
      BY DEF RollbackMode, Writes, notes
    <2>2. mem.active
      BY <1>0, <2>1 DEF Knows, MemOn, Starting
    <2>3. mem.mode \in Values("mode")
      BY <1>0, <2>1, <2>2, States1, PartyAssumption DEF StateTypes, Values
    <2>4. QED
      BY <2>1, <2>2, <2>3
  <1>2. /\ ControllerTypes' /\ chosen' = chosen /\ faults' \in 0 .. MaxFaults
        /\ UNCHANGED <<native, file, actions, expired, changes, commands, unsaved>>
        /\ \/ /\ pc' = (IF errors THEN "rb_error" ELSE "rb_clear") /\ UNCHANGED <<todo, got, caller, errors, changed>>
              /\ Wrote("mode", mem.mode, "user")
           \/ /\ pc' = "rb_error"
              /\ Wrote("mode", mem.mode, "user") \/ (ctl' = ctl /\ synthetic' = synthetic)
              /\ errors' \in BOOLEAN /\ errors' /\ UNCHANGED <<todo, got, caller, changed>>
    BY <1>0, <1>1, WriteFacts DEF RollbackMode, FlagTypes
  <1>3. FlagTypes'
    BY <1>0, <1>1, <1>2, EndsFacts DEF FlagTypes, Activating
  <1>4. ReadTypes'
    BY <1>0, <1>1, <1>2, EndsFacts DEF ReadTypes
  <1>5. StateTypes'
    BY <1>0, <1>1, <1>2, EndsFacts DEF StateTypes
  <1>6. Knows' /\ HasRead'
    BY <1>0, <1>1, <1>2, EndsFacts DEF Knows, HasRead
  <1>7. Remembered' /\ Undone'
    BY <1>0, <1>1, <1>2, EndsFacts DEF Remembered, Undone, ControllerTypes, Wrote
  <1>8. Targets'
    BY <1>0, <1>1, <1>2, EndsFacts
       DEF Targets, Settled, Unsettled, HasReadNormal, HasPutNormal, Starting, Restoring, Wrote
  <1>9. QED
    BY <1>2, <1>3, <1>4, <1>5, <1>6, <1>7, <1>8 DEF EmulationInv

\* deactivate restores the normal temperature,
LEMMA OffNormalInv ==
    ASSUME EmulationInv, OffNormal
    PROVE  EmulationInv'
  <1>0. /\ FlagTypes /\ ReadTypes /\ StateTypes /\ ControllerTypes
        /\ Knows /\ HasRead /\ Remembered /\ Undone /\ Targets
    BY DEF EmulationInv
  <1>1. /\ pc = "off_normal" /\ mem.active /\ mem.normal \in Values("normal")
        /\ mem' = mem /\ promised' = promised /\ torn' = torn
    <2>1. pc = "off_normal" /\ mem' = mem /\ promised' = promised /\ torn' = torn
      BY DEF OffNormal, Writes, notes
    <2>2. mem.active
      BY <1>0, <2>1 DEF Knows, MemOn, Starting
    <2>3. mem.normal \in Values("normal")
      BY <1>0, <2>1, <2>2, States1, PartyAssumption DEF StateTypes, Values
    <2>4. QED
      BY <2>1, <2>2, <2>3
  <1>2. /\ ControllerTypes' /\ chosen' = chosen /\ faults' \in 0 .. MaxFaults
        /\ UNCHANGED <<native, file, actions, expired, changes, commands, unsaved>>
        /\ \/ /\ pc' = "off_mode" /\ UNCHANGED <<todo, got, caller, errors, changed>>
              /\ Wrote("normal", mem.normal, "user")
           \/ /\ pc' = RestoreFails
              /\ Wrote("normal", mem.normal, "user") \/ (ctl' = ctl /\ synthetic' = synthetic)
              /\ IF caller = "startup" THEN Ends
                 ELSE errors' \in BOOLEAN /\ UNCHANGED <<todo, got, caller, changed>>
    BY <1>0, <1>1, WriteFacts DEF OffNormal, RestoreFails, FlagTypes
  <1>3. FlagTypes'
    BY <1>0, <1>1, <1>2, EndsFacts DEF FlagTypes, Restoring, RestoreFails
  <1>4. ReadTypes'
    BY <1>0, <1>1, <1>2, EndsFacts DEF ReadTypes, RestoreFails
  <1>5. StateTypes'
    BY <1>0, <1>1, <1>2, EndsFacts DEF StateTypes, RestoreFails
  <1>6. Knows' /\ HasRead'
    BY <1>0, <1>1, <1>2, EndsFacts DEF Knows, HasRead, RestoreFails
  <1>7. Remembered' /\ Undone'
    BY <1>0, <1>1, <1>2, EndsFacts DEF Remembered, Undone, Wrote, RestoreFails
  <1>8. Targets'
    BY <1>0, <1>1, <1>2, EndsFacts
       DEF Targets, Settled, Unsettled, HasReadNormal, HasPutNormal, Starting, Wrote, RestoreFails
  <1>9. QED
    BY <1>2, <1>3, <1>4, <1>5, <1>6, <1>7, <1>8 DEF EmulationInv

\* ... and the user's mode.
LEMMA OffModeInv ==
    ASSUME EmulationInv, OffMode
    PROVE  EmulationInv'
  <1>0. /\ FlagTypes /\ ReadTypes /\ StateTypes /\ ControllerTypes
        /\ Knows /\ HasRead /\ Remembered /\ Undone /\ Targets
    BY DEF EmulationInv
  <1>1. /\ pc = "off_mode" /\ mem.active /\ mem.mode \in Values("mode")
        /\ mem' = mem /\ promised' = promised /\ torn' = torn
    <2>1. pc = "off_mode" /\ mem' = mem /\ promised' = promised /\ torn' = torn
      BY DEF OffMode, Writes, notes
    <2>2. mem.active
      BY <1>0, <2>1 DEF Knows, MemOn, Starting
    <2>3. mem.mode \in Values("mode")
      BY <1>0, <2>1, <2>2, States1, PartyAssumption DEF StateTypes, Values
    <2>4. QED
      BY <2>1, <2>2, <2>3
  <1>2. /\ ControllerTypes' /\ chosen' = chosen /\ faults' \in 0 .. MaxFaults
        /\ UNCHANGED <<native, file, actions, expired, changes, commands, unsaved>>
        /\ \/ /\ pc' = "off_clear" /\ UNCHANGED <<todo, got, caller, errors, changed>>
              /\ Wrote("mode", mem.mode, "user")
           \/ /\ pc' = RestoreFails
              /\ Wrote("mode", mem.mode, "user") \/ (ctl' = ctl /\ synthetic' = synthetic)
              /\ IF caller = "startup" THEN Ends
                 ELSE errors' \in BOOLEAN /\ UNCHANGED <<todo, got, caller, changed>>
    BY <1>0, <1>1, WriteFacts DEF OffMode, RestoreFails, FlagTypes
  <1>3. FlagTypes'
    BY <1>0, <1>1, <1>2, EndsFacts DEF FlagTypes, Restoring, RestoreFails
  <1>4. ReadTypes'
    BY <1>0, <1>1, <1>2, EndsFacts DEF ReadTypes, RestoreFails
  <1>5. StateTypes'
    BY <1>0, <1>1, <1>2, EndsFacts DEF StateTypes, RestoreFails
  <1>6. Knows' /\ HasRead'
    BY <1>0, <1>1, <1>2, EndsFacts DEF Knows, HasRead, RestoreFails
  <1>7. Remembered' /\ Undone'
    BY <1>0, <1>1, <1>2, EndsFacts DEF Remembered, Undone, ControllerTypes, Wrote, RestoreFails
  <1>8. Targets'
    BY <1>0, <1>1, <1>2, EndsFacts
       DEF Targets, Settled, Unsettled, HasReadNormal, HasPutNormal, Starting, Restoring, Wrote,
           RestoreFails
  <1>9. QED
    BY <1>2, <1>3, <1>4, <1>5, <1>6, <1>7, <1>8 DEF EmulationInv

\* The saves keep it: recover_startup saves the party temperature it found,
LEMMA UpSaveInv ==
    ASSUME EmulationInv, UpSave
    PROVE  EmulationInv'
  <1>0. /\ FlagTypes /\ ReadTypes /\ StateTypes /\ ControllerTypes
        /\ Knows /\ HasRead /\ Remembered /\ Undone /\ Targets
    BY DEF EmulationInv
  <1>1. /\ pc = "up_save" /\ mem' = [mem EXCEPT !.party = got.party]
        /\ UNCHANGED <<ctl, synthetic, chosen, promised, torn, native, actions, expired, changes, commands>>
        /\ faults' \in 0 .. MaxFaults
        /\ \/ pc' = "loop" /\ file' = mem' /\ unsaved' = unsaved
           \/ pc' = "down" /\ file' = file /\ unsaved' = TRUE
        /\ IF pc' \in {"loop", "down"} THEN Ends ELSE UNCHANGED <<todo, got, caller, errors, changed>>
    BY <1>0, SaveFacts DEF UpSave
  <1>2. /\ mem.active /\ mem' \in States /\ mem'.active /\ mem'.normal = mem.normal /\ mem'.party = got.party
    <2>1. mem.active /\ got.party \in Temps
      BY <1>0, <1>1 DEF Knows, MemOn, Starting, HasRead, Three, ReadTypes, Values
    <2>2. QED
      BY <1>0, <1>1, <2>1, PartyReplaced DEF StateTypes
  <1>3. FlagTypes'
    BY <1>0, <1>1, <1>2, EndsFacts DEF FlagTypes
  <1>4. ReadTypes'
    BY <1>0, <1>1, <1>2, EndsFacts DEF ReadTypes
  <1>5. StateTypes'
    BY <1>0, <1>1, <1>2, EndsFacts DEF StateTypes
  <1>6. ControllerTypes'
    BY <1>0, <1>1, <1>2, EndsFacts DEF ControllerTypes
  <1>7. Knows' /\ HasRead'
    BY <1>0, <1>1, <1>2, EndsFacts DEF Knows, HasRead
  <1>8. Remembered' /\ Undone'
    BY <1>0, <1>1, <1>2, EndsFacts DEF Remembered, Undone
  <1>9. Targets'
    <2> SUFFICES ASSUME ~unsaved', ~torn' PROVE Targets'
      BY DEF Targets
    <2>1. pc' = "loop" /\ file' = mem' /\ got' = <<>> /\ DOMAIN got' = {} /\ Settled /\ HasPutNormal
      <3>1. ~unsaved /\ ~torn /\ pc' = "loop" /\ file' = mem'
        BY <1>0, <1>1 DEF FlagTypes
      <3>2. QED
        BY <1>0, <1>1, <3>1, EndsFacts DEF Targets
    <2>2. Settled'
      <3>1. mem.normal \in chosen /\ ctl.normal \in chosen \cup {got.party}
        BY <1>1, <1>2, <2>1 DEF Settled, HasPutNormal
      <3>2. mem'.normal \in chosen' /\ file'.normal \in chosen' /\ ctl'.normal \in chosen' \cup {mem'.party}
        BY <1>1, <1>2, <2>1, <3>1
      <3>3. "normal" \notin synthetic' => ctl'.normal \in chosen'
        BY <1>1, <2>1 DEF Settled
      <3>4. QED
        BY <3>2, <3>3 DEF Settled
    <2>3. QED
      BY <2>1, <2>2 DEF Targets, HasReadNormal, HasPutNormal
  <1>10. QED
    BY <1>3, <1>4, <1>5, <1>6, <1>7, <1>8, <1>9 DEF EmulationInv

\* activate saves that it succeeded,
LEMMA ActDoneInv ==
    ASSUME EmulationInv, ActDone
    PROVE  EmulationInv'
  <1>0. /\ FlagTypes /\ ReadTypes /\ StateTypes /\ ControllerTypes
        /\ Knows /\ HasRead /\ Remembered /\ Undone /\ Targets
    BY DEF EmulationInv
  <1>1. /\ pc = "act_done" /\ mem' = mem
        /\ UNCHANGED <<ctl, synthetic, chosen, promised, torn, native, actions, expired, changes, commands>>
        /\ faults' \in 0 .. MaxFaults
        /\ \/ pc' = "loop" /\ file' = mem /\ unsaved' = unsaved
           \/ pc' = "rb_save" /\ file' = file /\ unsaved' = TRUE
        /\ IF pc' \in {"loop", "down"} THEN Ends ELSE UNCHANGED <<todo, got, caller, errors, changed>>
    BY <1>0, SaveFacts DEF ActDone
  <1>2. FlagTypes'
    BY <1>0, <1>1, EndsFacts DEF FlagTypes, Activating
  <1>3. ReadTypes'
    BY <1>0, <1>1, EndsFacts DEF ReadTypes
  <1>4. StateTypes'
    BY <1>0, <1>1, EndsFacts DEF StateTypes
  <1>5. ControllerTypes'
    BY <1>0, <1>1, EndsFacts DEF ControllerTypes
  <1>6. Knows' /\ HasRead'
    BY <1>0, <1>1, EndsFacts DEF Knows, HasRead, MemOn
  <1>7. Remembered' /\ Undone'
    BY <1>0, <1>1, EndsFacts DEF Remembered, Undone
  <1>8. Targets'
    BY <1>0, <1>1, EndsFacts
       DEF Targets, Settled, Unsettled, HasReadNormal, HasPutNormal, Starting, Restoring
  <1>9. QED
    BY <1>2, <1>3, <1>4, <1>5, <1>6, <1>7, <1>8 DEF EmulationInv

\* rollback_activation saves the error of the activation,
LEMMA RollbackSaveInv ==
    ASSUME EmulationInv, RollbackSave
    PROVE  EmulationInv'
  <1>0. /\ FlagTypes /\ ReadTypes /\ StateTypes /\ ControllerTypes
        /\ Knows /\ HasRead /\ Remembered /\ Undone /\ Targets
    BY DEF EmulationInv
  <1>1. /\ pc = "rb_save" /\ mem' = mem
        /\ UNCHANGED <<ctl, synthetic, chosen, promised, torn, native, actions, expired, changes, commands>>
        /\ faults' \in 0 .. MaxFaults
        /\ \/ pc' = "rb_normal" /\ file' = mem /\ unsaved' = unsaved
           \/ pc' = "loop" /\ file' = file /\ unsaved' = TRUE
        /\ IF pc' \in {"loop", "down"} THEN Ends ELSE UNCHANGED <<todo, got, caller, errors, changed>>
    BY <1>0, SaveFacts DEF RollbackSave
  <1>2. FlagTypes'
    BY <1>0, <1>1, EndsFacts DEF FlagTypes, Activating
  <1>3. ReadTypes'
    BY <1>0, <1>1, EndsFacts DEF ReadTypes
  <1>4. StateTypes'
    BY <1>0, <1>1, EndsFacts DEF StateTypes
  <1>5. ControllerTypes'
    BY <1>0, <1>1, EndsFacts DEF ControllerTypes
  <1>6. Knows' /\ HasRead'
    BY <1>0, <1>1, EndsFacts DEF Knows, HasRead, MemOn
  <1>7. Remembered' /\ Undone'
    BY <1>0, <1>1, EndsFacts DEF Remembered, Undone
  <1>8. Targets'
    BY <1>0, <1>1, EndsFacts
       DEF Targets, Settled, Unsettled, HasReadNormal, HasPutNormal, Starting, Restoring
  <1>9. QED
    BY <1>2, <1>3, <1>4, <1>5, <1>6, <1>7, <1>8 DEF EmulationInv

\* ... or that it could not restore everything,
LEMMA RollbackErrorInv ==
    ASSUME EmulationInv, RollbackError
    PROVE  EmulationInv'
  <1>0. /\ FlagTypes /\ ReadTypes /\ StateTypes /\ ControllerTypes
        /\ Knows /\ HasRead /\ Remembered /\ Undone /\ Targets
    BY DEF EmulationInv
  <1>1. /\ pc = "rb_error" /\ mem' = mem
        /\ UNCHANGED <<ctl, synthetic, chosen, promised, torn, native, actions, expired, changes, commands>>
        /\ faults' \in 0 .. MaxFaults
        /\ \/ pc' = "loop" /\ file' = mem /\ unsaved' = unsaved
           \/ pc' = "loop" /\ file' = file /\ unsaved' = TRUE
        /\ IF pc' \in {"loop", "down"} THEN Ends ELSE UNCHANGED <<todo, got, caller, errors, changed>>
    BY <1>0, SaveFacts DEF RollbackError
  <1>2. FlagTypes'
    BY <1>0, <1>1, EndsFacts DEF FlagTypes
  <1>3. ReadTypes'
    BY <1>0, <1>1, EndsFacts DEF ReadTypes
  <1>4. StateTypes'
    BY <1>0, <1>1, EndsFacts DEF StateTypes
  <1>5. ControllerTypes'
    BY <1>0, <1>1, EndsFacts DEF ControllerTypes
  <1>6. Knows' /\ HasRead'
    BY <1>0, <1>1, EndsFacts DEF Knows, HasRead, MemOn, Starting, Syncing
  <1>7. Remembered' /\ Undone'
    BY <1>0, <1>1, EndsFacts DEF Remembered, Undone
  <1>8. Targets'
    BY <1>0, <1>1, EndsFacts
       DEF Targets, Settled, Unsettled, HasReadNormal, HasPutNormal, Starting, Restoring
  <1>9. QED
    BY <1>2, <1>3, <1>4, <1>5, <1>6, <1>7, <1>8 DEF EmulationInv

\* deactivate saves what it is about to restore,
LEMMA OffSaveInv ==
    ASSUME EmulationInv, OffSave
    PROVE  EmulationInv'
  <1>0. /\ FlagTypes /\ ReadTypes /\ StateTypes /\ ControllerTypes
        /\ Knows /\ HasRead /\ Remembered /\ Undone /\ Targets
    BY DEF EmulationInv
  <1>1. /\ pc = "off_save" /\ mem' = mem
        /\ UNCHANGED <<ctl, synthetic, chosen, promised, torn, native, actions, expired, changes, commands>>
        /\ faults' \in 0 .. MaxFaults
        /\ \/ pc' = "off_normal" /\ file' = mem /\ unsaved' = unsaved
           \/ pc' = RestoreFails /\ file' = file /\ unsaved' = TRUE
        /\ IF pc' \in {"loop", "down"} THEN Ends ELSE UNCHANGED <<todo, got, caller, errors, changed>>
    BY <1>0, SaveFacts DEF OffSave
  <1>2. FlagTypes'
    BY <1>0, <1>1, EndsFacts DEF FlagTypes, Restoring, RestoreFails
  <1>3. ReadTypes'
    BY <1>0, <1>1, EndsFacts DEF ReadTypes, RestoreFails
  <1>4. StateTypes'
    BY <1>0, <1>1, EndsFacts DEF StateTypes, RestoreFails
  <1>5. ControllerTypes'
    BY <1>0, <1>1, EndsFacts DEF ControllerTypes, RestoreFails
  <1>6. Knows' /\ HasRead'
    BY <1>0, <1>1, EndsFacts DEF Knows, HasRead, MemOn, RestoreFails
  <1>7. Remembered' /\ Undone'
    BY <1>0, <1>1, EndsFacts DEF Remembered, Undone, RestoreFails
  <1>8. Targets'
    BY <1>0, <1>1, EndsFacts
       DEF Targets, Settled, Unsettled, HasReadNormal, HasPutNormal, Starting, Restoring
  <1>9. QED
    BY <1>2, <1>3, <1>4, <1>5, <1>6, <1>7, <1>8 DEF EmulationInv

\* ... or that it failed,
LEMMA OffErrorInv ==
    ASSUME EmulationInv, OffError
    PROVE  EmulationInv'
  <1>0. /\ FlagTypes /\ ReadTypes /\ StateTypes /\ ControllerTypes
        /\ Knows /\ HasRead /\ Remembered /\ Undone /\ Targets
    BY DEF EmulationInv
  <1>1. /\ pc = "off_error" /\ mem' = mem
        /\ UNCHANGED <<ctl, synthetic, chosen, promised, torn, native, actions, expired, changes, commands>>
        /\ faults' \in 0 .. MaxFaults
        /\ \/ pc' = Raised /\ file' = mem /\ unsaved' = unsaved
           \/ pc' = Raised /\ file' = file /\ unsaved' = TRUE
        /\ IF pc' \in {"loop", "down"} THEN Ends ELSE UNCHANGED <<todo, got, caller, errors, changed>>
    BY <1>0, SaveFacts DEF OffError
  <1>2. FlagTypes'
    BY <1>0, <1>1, EndsFacts DEF FlagTypes, Raised
  <1>3. ReadTypes'
    BY <1>0, <1>1, EndsFacts DEF ReadTypes, Raised
  <1>4. StateTypes'
    BY <1>0, <1>1, EndsFacts DEF StateTypes, Raised
  <1>5. ControllerTypes'
    BY <1>0, <1>1, EndsFacts DEF ControllerTypes, Raised
  <1>6. Knows' /\ HasRead'
    BY <1>0, <1>1, EndsFacts DEF Knows, HasRead, MemOn, Starting, Syncing, Raised
  <1>7. Remembered' /\ Undone'
    BY <1>0, <1>1, EndsFacts DEF Remembered, Undone, Raised
  <1>8. Targets'
    BY <1>0, <1>1, EndsFacts
       DEF Targets, Settled, Unsettled, HasReadNormal, HasPutNormal, Starting, Raised
  <1>9. QED
    BY <1>2, <1>3, <1>4, <1>5, <1>6, <1>7, <1>8 DEF EmulationInv

\* the sync saves its error,
LEMMA SyncErrorInv ==
    ASSUME EmulationInv, SyncError
    PROVE  EmulationInv'
  <1>0. /\ FlagTypes /\ ReadTypes /\ StateTypes /\ ControllerTypes
        /\ Knows /\ HasRead /\ Remembered /\ Undone /\ Targets
    BY DEF EmulationInv
  <1>1. /\ pc = "sync_error" /\ mem' = mem
        /\ UNCHANGED <<ctl, synthetic, chosen, promised, torn, native, actions, expired, changes, commands>>
        /\ faults' \in 0 .. MaxFaults
        /\ \/ pc' = "loop" /\ file' = mem /\ unsaved' = unsaved
           \/ pc' = "down" /\ file' = file /\ unsaved' = TRUE
        /\ IF pc' \in {"loop", "down"} THEN Ends ELSE UNCHANGED <<todo, got, caller, errors, changed>>
    BY <1>0, SaveFacts DEF SyncError
  <1>2. FlagTypes'
    BY <1>0, <1>1, EndsFacts DEF FlagTypes
  <1>3. ReadTypes'
    BY <1>0, <1>1, EndsFacts DEF ReadTypes
  <1>4. StateTypes'
    BY <1>0, <1>1, EndsFacts DEF StateTypes
  <1>5. ControllerTypes'
    BY <1>0, <1>1, EndsFacts DEF ControllerTypes
  <1>6. Knows' /\ HasRead'
    BY <1>0, <1>1, EndsFacts DEF Knows, HasRead, MemOn, Syncing
  <1>7. Remembered' /\ Undone'
    BY <1>0, <1>1, EndsFacts DEF Remembered, Undone
  <1>8. Targets'
    BY <1>0, <1>1, EndsFacts
       DEF Targets, Settled, Unsettled, HasReadNormal, HasPutNormal, Starting, Restoring
  <1>9. QED
    BY <1>2, <1>3, <1>4, <1>5, <1>6, <1>7, <1>8 DEF EmulationInv

\* rollback_activation forgets what it has restored,
LEMMA RollbackClearInv ==
    ASSUME EmulationInv, RollbackClear
    PROVE  EmulationInv'
  <1>0. /\ FlagTypes /\ ReadTypes /\ StateTypes /\ ControllerTypes
        /\ Knows /\ HasRead /\ Remembered /\ Undone /\ Targets
    BY DEF EmulationInv
  <1>1. /\ pc = "rb_clear" /\ mem' = Off
        /\ UNCHANGED <<ctl, synthetic, chosen, promised, torn, native, actions, expired, changes, commands>>
        /\ faults' \in 0 .. MaxFaults
        /\ \/ pc' = "loop" /\ file' = Off /\ unsaved' = unsaved
           \/ pc' = "rb_error" /\ file' = file /\ unsaved' = TRUE
        /\ IF pc' \in {"loop", "down"} THEN Ends ELSE UNCHANGED <<todo, got, caller, errors, changed>>
    BY <1>0, SaveFacts DEF RollbackClear
  <1>2. Off \in States /\ ~Off.active
    BY DEF States, Off
  <1>3. FlagTypes'
    BY <1>0, <1>1, <1>2, EndsFacts DEF FlagTypes, Activating
  <1>4. ReadTypes'
    BY <1>0, <1>1, <1>2, EndsFacts DEF ReadTypes
  <1>5. StateTypes'
    BY <1>0, <1>1, <1>2, EndsFacts DEF StateTypes
  <1>6. ControllerTypes'
    BY <1>0, <1>1, <1>2, EndsFacts DEF ControllerTypes
  <1>7. Knows' /\ HasRead'
    BY <1>0, <1>1, <1>2, EndsFacts DEF Knows, HasRead, MemOn, Starting, Syncing
  <1>8. Remembered' /\ Undone'
    BY <1>0, <1>1, <1>2, EndsFacts DEF Remembered, Undone
  <1>9. Targets'
    BY <1>0, <1>1, <1>2, EndsFacts DEF Targets, Settled, HasReadNormal, HasPutNormal
  <1>10. QED
    BY <1>3, <1>4, <1>5, <1>6, <1>7, <1>8, <1>9 DEF EmulationInv

\* as does deactivate,
LEMMA OffClearInv ==
    ASSUME EmulationInv, OffClear
    PROVE  EmulationInv'
  <1>0. /\ FlagTypes /\ ReadTypes /\ StateTypes /\ ControllerTypes
        /\ Knows /\ HasRead /\ Remembered /\ Undone /\ Targets
    BY DEF EmulationInv
  <1>1. /\ pc = "off_clear" /\ mem' = Off
        /\ UNCHANGED <<ctl, synthetic, chosen, promised, torn, native, actions, expired, changes, commands>>
        /\ faults' \in 0 .. MaxFaults
        /\ \/ pc' = Ended(errors) /\ file' = Off /\ unsaved' = unsaved
           \/ pc' = RestoreFails /\ file' = file /\ unsaved' = TRUE
        /\ IF pc' \in {"loop", "down"} THEN Ends ELSE UNCHANGED <<todo, got, caller, errors, changed>>
    BY <1>0, SaveFacts DEF OffClear
  <1>2. Off \in States /\ ~Off.active
    BY DEF States, Off
  <1>3. FlagTypes'
    BY <1>0, <1>1, <1>2, EndsFacts DEF FlagTypes, Restoring, RestoreFails, Raised, Ended
  <1>4. ReadTypes'
    BY <1>0, <1>1, <1>2, EndsFacts DEF ReadTypes, RestoreFails, Raised, Ended
  <1>5. StateTypes'
    BY <1>0, <1>1, <1>2, EndsFacts DEF StateTypes, RestoreFails, Raised, Ended
  <1>6. ControllerTypes'
    BY <1>0, <1>1, <1>2, EndsFacts DEF ControllerTypes, RestoreFails, Raised, Ended
  <1>7. Knows' /\ HasRead'
    BY <1>0, <1>1, <1>2, EndsFacts
       DEF Knows, HasRead, MemOn, Starting, Syncing, RestoreFails, Raised, Ended
  <1>8. Remembered' /\ Undone'
    BY <1>0, <1>1, <1>2, EndsFacts DEF Remembered, Undone
  <1>9. Targets'
    BY <1>0, <1>1, <1>2, EndsFacts DEF Targets, Settled, HasReadNormal, HasPutNormal, Raised, Ended
  <1>10. QED
    BY <1>3, <1>4, <1>5, <1>6, <1>7, <1>8, <1>9 DEF EmulationInv

\* and the sync saves what the user has chosen.
LEMMA SyncSaveInv ==
    ASSUME EmulationInv, SyncSave
    PROVE  EmulationInv'
  <1>0. /\ FlagTypes /\ ReadTypes /\ StateTypes /\ ControllerTypes
        /\ Knows /\ HasRead /\ Remembered /\ Undone /\ Targets
    BY DEF EmulationInv
  <1>1. /\ pc = "sync_save" /\ mem' = mem
        /\ UNCHANGED <<ctl, synthetic, chosen, promised, torn, native, actions, expired, changes, commands>>
        /\ faults' \in 0 .. MaxFaults
        /\ \/ pc' = "loop" /\ file' = (IF changed THEN mem ELSE file) /\ unsaved' = unsaved
           \/ pc' = "sync_error" /\ file' = file /\ unsaved' = TRUE
        /\ IF pc' \in {"loop", "down"} THEN Ends ELSE UNCHANGED <<todo, got, caller, errors, changed>>
    BY <1>0, FaultFacts DEF SyncSave, Saves, Goes, outside, bounds, notes, local, FlagTypes
  <1>2. FlagTypes'
    BY <1>0, <1>1, EndsFacts DEF FlagTypes, Syncing
  <1>3. ReadTypes'
    BY <1>0, <1>1, EndsFacts DEF ReadTypes
  <1>4. StateTypes'
    BY <1>0, <1>1, EndsFacts DEF StateTypes
  <1>5. ControllerTypes'
    BY <1>0, <1>1, EndsFacts DEF ControllerTypes
  <1>6. Knows' /\ HasRead'
    BY <1>0, <1>1, EndsFacts DEF Knows, HasRead, MemOn, Syncing
  <1>7. Remembered' /\ Undone'
    BY <1>0, <1>1, EndsFacts DEF Remembered, Undone
  <1>8. Targets'
    BY <1>0, <1>1, EndsFacts
       DEF Targets, Settled, Unsettled, HasReadNormal, HasPutNormal, Starting, Restoring
  <1>9. QED
    BY <1>2, <1>3, <1>4, <1>5, <1>6, <1>7, <1>8 DEF EmulationInv

\* The reads keep it: those of recover_startup,
LEMMA UpReadInv ==
    ASSUME EmulationInv, Reads("up_read", "up_normal", "down")
    PROVE  EmulationInv'
  <1>0. /\ FlagTypes /\ ReadTypes /\ StateTypes /\ ControllerTypes
        /\ Knows /\ HasRead /\ Remembered /\ Undone /\ Targets
    BY DEF EmulationInv
  <1>1. /\ pc = "up_read" /\ faults' \in 0 .. MaxFaults /\ ReadTypes'
        /\ UNCHANGED <<mem, native, file, actions, ctl, synthetic, chosen, expired, changes, commands,
                       promised, torn, unsaved>>
        /\ \/ pc' = "down" /\ Ends
           \/ /\ pc' = IF todo' = <<>> THEN "up_normal" ELSE "up_read"
              /\ UNCHANGED <<caller, errors, changed>>
              /\ DOMAIN got' \cup ToSet(todo') = DOMAIN got \cup ToSet(todo)
              /\ todo' = <<>> => ToSet(todo') = {}
              /\ \A field \in DOMAIN got' :
                   got'[field] = ctl[field] \/ (field \in DOMAIN got /\ got'[field] = got[field])
    BY <1>0, ReadFacts
  <1>2. FlagTypes'
    BY <1>0, <1>1, EndsFacts DEF FlagTypes, Starting
  <1>3. StateTypes'
    BY <1>0, <1>1, EndsFacts DEF StateTypes
  <1>4. ControllerTypes'
    BY <1>0, <1>1, EndsFacts DEF ControllerTypes
  <1>5. Knows' /\ HasRead'
    BY <1>0, <1>1, EndsFacts DEF Knows, HasRead, MemOn, Starting
  <1>6. Remembered' /\ Undone'
    BY <1>0, <1>1, EndsFacts DEF Remembered, Undone
  <1>7. Targets'
    BY <1>0, <1>1, EndsFacts DEF Targets, Settled, Unsettled, HasReadNormal, HasPutNormal, Starting
  <1>8. QED
    BY <1>1, <1>2, <1>3, <1>4, <1>5, <1>6, <1>7 DEF EmulationInv

\* of activate,
LEMMA ActReadInv ==
    ASSUME EmulationInv, Reads("act_read", "act_save", "loop")
    PROVE  EmulationInv'
  <1>0. /\ FlagTypes /\ ReadTypes /\ StateTypes /\ ControllerTypes
        /\ Knows /\ HasRead /\ Remembered /\ Undone /\ Targets
    BY DEF EmulationInv
  <1>1. /\ pc = "act_read" /\ faults' \in 0 .. MaxFaults /\ ReadTypes'
        /\ UNCHANGED <<mem, native, file, actions, ctl, synthetic, chosen, expired, changes, commands,
                       promised, torn, unsaved>>
        /\ \/ pc' = "loop" /\ Ends
           \/ /\ pc' = IF todo' = <<>> THEN "act_save" ELSE "act_read"
              /\ UNCHANGED <<caller, errors, changed>>
              /\ DOMAIN got' \cup ToSet(todo') = DOMAIN got \cup ToSet(todo)
              /\ todo' = <<>> => ToSet(todo') = {}
              /\ \A field \in DOMAIN got' :
                   got'[field] = ctl[field] \/ (field \in DOMAIN got /\ got'[field] = got[field])
    BY <1>0, ReadFacts
  <1>2. FlagTypes'
    BY <1>0, <1>1, EndsFacts DEF FlagTypes, Activating
  <1>3. StateTypes'
    BY <1>0, <1>1, EndsFacts DEF StateTypes
  <1>4. ControllerTypes'
    BY <1>0, <1>1, EndsFacts DEF ControllerTypes
  <1>5. Knows' /\ HasRead'
    BY <1>0, <1>1, EndsFacts DEF Knows, HasRead, MemOn, Starting, Syncing
  <1>6. Remembered' /\ Undone'
    BY <1>0, <1>1, EndsFacts DEF Remembered, Undone
  <1>7. Targets'
    <2>1. CASE unsaved \/ torn
      BY <1>1, <2>1 DEF Targets
    <2>2. CASE ~unsaved /\ ~torn
      <3>1. Settled /\ HasReadNormal /\ ~mem.active /\ ctl.normal \in chosen
        BY <1>0, <1>1, <2>2 DEF Targets, Settled, Knows, Remembered
      <3>2. Settled'
        BY <1>1, <3>1 DEF Settled
      <3>3. "normal" \in DOMAIN got' /\ ~Ends =>
              got'.normal = ctl.normal \/ ("normal" \in DOMAIN got /\ got'.normal = got.normal)
        BY <1>1
      <3>4. pc' \in {"loop", "act_read", "act_save"}
        BY <1>1
      <3>5. HasReadNormal'
        BY <1>1, <3>1, <3>3, <3>4, EndsFacts DEF HasReadNormal
      <3>6. QED
        BY <3>2, <3>4, <3>5 DEF Targets, HasPutNormal
    <2>3. QED
      BY <2>1, <2>2
  <1>8. QED
    BY <1>1, <1>2, <1>3, <1>4, <1>5, <1>6, <1>7 DEF EmulationInv

\* and of the sync.
LEMMA SyncReadInv ==
    ASSUME EmulationInv, Reads("sync_read", "sync_normal", "sync_error")
    PROVE  EmulationInv'
  <1>0. /\ FlagTypes /\ ReadTypes /\ StateTypes /\ ControllerTypes
        /\ Knows /\ HasRead /\ Remembered /\ Undone /\ Targets
    BY DEF EmulationInv
  <1>1. /\ pc = "sync_read" /\ faults' \in 0 .. MaxFaults /\ ReadTypes'
        /\ UNCHANGED <<mem, native, file, actions, ctl, synthetic, chosen, expired, changes, commands,
                       promised, torn, unsaved>>
        /\ \/ pc' = "sync_error" /\ Ends
           \/ /\ pc' = IF todo' = <<>> THEN "sync_normal" ELSE "sync_read"
              /\ UNCHANGED <<caller, errors, changed>>
              /\ DOMAIN got' \cup ToSet(todo') = DOMAIN got \cup ToSet(todo)
              /\ todo' = <<>> => ToSet(todo') = {}
              /\ \A field \in DOMAIN got' :
                   got'[field] = ctl[field] \/ (field \in DOMAIN got /\ got'[field] = got[field])
    BY <1>0, ReadFacts
  <1>2. FlagTypes'
    BY <1>0, <1>1, EndsFacts DEF FlagTypes, Syncing
  <1>3. StateTypes'
    BY <1>0, <1>1, EndsFacts DEF StateTypes
  <1>4. ControllerTypes'
    BY <1>0, <1>1, EndsFacts DEF ControllerTypes
  <1>5. Knows' /\ HasRead'
    BY <1>0, <1>1, EndsFacts DEF Knows, HasRead, MemOn, Syncing
  <1>6. Remembered' /\ Undone'
    BY <1>0, <1>1, EndsFacts DEF Remembered, Undone
  <1>7. Targets'
    BY <1>0, <1>1, EndsFacts
       DEF Targets, Settled, Unsettled, HasReadNormal, HasPutNormal, Knows, MemOn, Starting,
           Restoring, Syncing
  <1>8. QED
    BY <1>1, <1>2, <1>3, <1>4, <1>5, <1>6, <1>7 DEF EmulationInv

\* recover_startup begins.
LEMMA RecoverInv ==
    ASSUME EmulationInv, Recover
    PROVE  EmulationInv'
  <1>0. /\ FlagTypes /\ ReadTypes /\ StateTypes /\ ControllerTypes
        /\ Knows /\ HasRead /\ Remembered /\ Undone /\ Targets
    BY DEF EmulationInv
  <1>1. /\ pc = "start" /\ got' = <<>> /\ got = <<>>
        /\ UNCHANGED <<errors, changed, mem, native, file, actions, ctl, synthetic, chosen, expired, faults,
                       changes, commands, promised, torn, unsaved>>
        /\ \/ ~mem.active /\ pc' = "loop" /\ UNCHANGED <<todo, caller>>
           \/ mem.active /\ pc' = "off_save" /\ caller' = "startup" /\ UNCHANGED todo
           \/ mem.active /\ pc' = "up_read" /\ todo' = <<"party", "normal", "mode">> /\ UNCHANGED caller
    BY <1>0 DEF Recover, Knows, outside, bounds, notes
  <1>2. /\ \A f \in {"party", "normal", "mode"} : f \in Fields
        /\ <<"party", "normal", "mode">> \in Seq(Fields)
        /\ ToSet(<<"party", "normal", "mode">>) = Three
    BY DEF Fields, Three, ToSet
  <1>3. FlagTypes'
    BY <1>0, <1>1, <1>2, EndsFacts DEF FlagTypes, Starting, Restoring
  <1>4. ReadTypes'
    BY <1>0, <1>1, <1>2, EndsFacts DEF ReadTypes
  <1>5. StateTypes'
    BY <1>0, <1>1, <1>2, EndsFacts DEF StateTypes
  <1>6. ControllerTypes'
    BY <1>0, <1>1, <1>2, EndsFacts DEF ControllerTypes
  <1>7. Knows' /\ HasRead'
    BY <1>0, <1>1, <1>2, EndsFacts DEF Knows, HasRead, MemOn, Starting, Syncing
  <1>8. Remembered' /\ Undone'
    BY <1>0, <1>1, <1>2, EndsFacts DEF Remembered, Undone
  <1>9. Targets'
    BY <1>0, <1>1, <1>2, EndsFacts
       DEF Targets, Settled, Unsettled, HasReadNormal, HasPutNormal, Starting, Restoring
  <1>10. QED
    BY <1>3, <1>4, <1>5, <1>6, <1>7, <1>8, <1>9 DEF EmulationInv

\* An ON is taken.
LEMMA TakeOnInv ==
    ASSUME EmulationInv, TakeOn
    PROVE  EmulationInv'
  <1>0. /\ FlagTypes /\ ReadTypes /\ StateTypes /\ ControllerTypes
        /\ Knows /\ HasRead /\ Remembered /\ Undone /\ Targets
    BY DEF EmulationInv
  <1>1. /\ pc = "loop" /\ got' = <<>> /\ got = <<>> /\ actions' \in Seq({"on", "off"})
        /\ UNCHANGED <<caller, changed, mem, native, file, ctl, synthetic, chosen, expired, faults,
                       changes, commands, promised, torn, unsaved>>
        /\ \/ mem.active /\ UNCHANGED <<pc, todo, errors>>
           \/ /\ ~mem.active /\ pc' = "act_read" /\ todo' = <<"native", "mode", "normal", "party">>
              /\ errors' = FALSE
    BY <1>0 DEF TakeOn, Knows, FlagTypes, outside, bounds, notes
  <1>2. /\ <<"native", "mode", "normal", "party">> \in Seq(Fields)
        /\ ToSet(<<"native", "mode", "normal", "party">>) = Fields
    BY DEF Fields, ToSet
  <1>3. FlagTypes'
    BY <1>0, <1>1, <1>2, EndsFacts DEF FlagTypes, Activating
  <1>4. ReadTypes'
    BY <1>0, <1>1, <1>2, EndsFacts DEF ReadTypes
  <1>5. StateTypes'
    BY <1>0, <1>1, <1>2, EndsFacts DEF StateTypes
  <1>6. ControllerTypes'
    BY <1>0, <1>1, <1>2, EndsFacts DEF ControllerTypes
  <1>7. Knows' /\ HasRead'
    BY <1>0, <1>1, <1>2, EndsFacts DEF Knows, HasRead, MemOn, Starting, Syncing
  <1>8. Remembered' /\ Undone'
    BY <1>0, <1>1, <1>2, EndsFacts DEF Remembered, Undone
  <1>9. Targets'
    BY <1>0, <1>1, <1>2, EndsFacts DEF Targets, Settled, Unsettled, HasReadNormal, HasPutNormal
  <1>10. QED
    BY <1>3, <1>4, <1>5, <1>6, <1>7, <1>8, <1>9 DEF EmulationInv

\* Native Party is on already.
LEMMA NativeIsOnInv ==
    ASSUME EmulationInv, NativeIsOn
    PROVE  EmulationInv'
  <1>0. /\ FlagTypes /\ ReadTypes /\ StateTypes /\ ControllerTypes
        /\ Knows /\ HasRead /\ Remembered /\ Undone /\ Targets
    BY DEF EmulationInv
  <1>1. /\ pc = "act_save" /\ pc' = "loop" /\ native' = 1 /\ Ends /\ ~mem.active
        /\ UNCHANGED <<mem, file, actions, ctl, synthetic, chosen, expired, faults,
                       changes, commands, promised, torn, unsaved>>
    BY <1>0 DEF NativeIsOn, Knows, outside, bounds, notes
  <1>2. FlagTypes'
    BY <1>0, <1>1, EndsFacts DEF FlagTypes
  <1>3. ReadTypes'
    BY <1>0, <1>1, EndsFacts DEF ReadTypes
  <1>4. StateTypes'
    BY <1>0, <1>1, EndsFacts DEF StateTypes
  <1>5. ControllerTypes'
    BY <1>0, <1>1, EndsFacts DEF ControllerTypes
  <1>6. Knows' /\ HasRead'
    BY <1>0, <1>1, EndsFacts DEF Knows, HasRead, MemOn, Starting, Syncing
  <1>7. Remembered' /\ Undone'
    BY <1>0, <1>1, EndsFacts DEF Remembered, Undone
  <1>8. Targets'
    BY <1>0, <1>1, EndsFacts DEF Targets, Settled, HasReadNormal, HasPutNormal
  <1>9. QED
    BY <1>2, <1>3, <1>4, <1>5, <1>6, <1>7, <1>8 DEF EmulationInv

\* The sync begins.
LEMMA SyncInv ==
    ASSUME EmulationInv, Sync
    PROVE  EmulationInv'
  <1>0. /\ FlagTypes /\ ReadTypes /\ StateTypes /\ ControllerTypes
        /\ Knows /\ HasRead /\ Remembered /\ Undone /\ Targets
    BY DEF EmulationInv
  <1>1. /\ pc = "loop" /\ pc' = "sync_read" /\ got' = <<>> /\ got = <<>> /\ mem.active /\ changed' = FALSE
        /\ todo' = <<"party", "normal", "mode">>
        /\ UNCHANGED <<caller, errors, mem, native, file, actions, ctl, synthetic, chosen, expired, faults,
                       changes, commands, promised, torn, unsaved>>
    BY <1>0 DEF Sync, Knows, outside, bounds, notes
  <1>2. /\ \A f \in {"party", "normal", "mode"} : f \in Fields
        /\ <<"party", "normal", "mode">> \in Seq(Fields)
        /\ ToSet(<<"party", "normal", "mode">>) = Three
    BY DEF Fields, Three, ToSet
  <1>3. FlagTypes'
    BY <1>0, <1>1, <1>2, EndsFacts DEF FlagTypes, Syncing
  <1>4. ReadTypes'
    BY <1>0, <1>1, <1>2, EndsFacts DEF ReadTypes
  <1>5. StateTypes'
    BY <1>0, <1>1, <1>2, EndsFacts DEF StateTypes
  <1>6. ControllerTypes'
    BY <1>0, <1>1, <1>2, EndsFacts DEF ControllerTypes
  <1>7. Knows' /\ HasRead'
    BY <1>0, <1>1, <1>2, EndsFacts DEF Knows, HasRead
  <1>8. Remembered' /\ Undone'
    BY <1>0, <1>1, <1>2, EndsFacts DEF Remembered, Undone
  <1>9. Targets'
    BY <1>0, <1>1, <1>2, EndsFacts
       DEF Targets, Settled, Unsettled, HasReadNormal, HasPutNormal, Starting, Restoring
  <1>10. QED
    BY <1>3, <1>4, <1>5, <1>6, <1>7, <1>8, <1>9 DEF EmulationInv

\* An OFF is taken.
LEMMA TakeOffInv ==
    ASSUME EmulationInv, TakeOff
    PROVE  EmulationInv'
  <1>0. /\ FlagTypes /\ ReadTypes /\ StateTypes /\ ControllerTypes
        /\ Knows /\ HasRead /\ Remembered /\ Undone /\ Targets
    BY DEF EmulationInv
  <1>1. /\ pc = "loop" /\ pc' = "off_native" /\ caller' = "command" /\ errors' = FALSE
        /\ native' \in 0 .. 1 /\ actions' \in Seq({"on", "off"})
        /\ UNCHANGED <<todo, got, changed, mem, file, ctl, synthetic, chosen, expired, faults,
                       changes, commands, promised, torn, unsaved>>
    BY <1>0 DEF TakeOff, Deactivate, FlagTypes, outside, bounds, notes
  <1>2. FlagTypes'
    BY <1>0, <1>1, EndsFacts DEF FlagTypes, Restoring
  <1>3. ReadTypes'
    BY <1>0, <1>1, EndsFacts DEF ReadTypes
  <1>4. StateTypes'
    BY <1>0, <1>1, EndsFacts DEF StateTypes
  <1>5. ControllerTypes'
    BY <1>0, <1>1, EndsFacts DEF ControllerTypes
  <1>6. Knows' /\ HasRead'
    BY <1>0, <1>1, EndsFacts DEF Knows, HasRead, MemOn, Starting, Syncing
  <1>7. Remembered' /\ Undone'
    BY <1>0, <1>1, EndsFacts DEF Remembered, Undone
  <1>8. Targets'
    BY <1>0, <1>1, EndsFacts
       DEF Targets, Settled, Unsettled, HasReadNormal, HasPutNormal, Starting, Restoring
  <1>9. QED
    BY <1>2, <1>3, <1>4, <1>5, <1>6, <1>7, <1>8 DEF EmulationInv

\* The limit has passed.
LEMMA CheckTimeoutInv ==
    ASSUME EmulationInv, CheckTimeout
    PROVE  EmulationInv'
  <1>0. /\ FlagTypes /\ ReadTypes /\ StateTypes /\ ControllerTypes
        /\ Knows /\ HasRead /\ Remembered /\ Undone /\ Targets
    BY DEF EmulationInv
  <1>1. /\ pc = "loop" /\ pc' = "off_native" /\ caller' = "timeout" /\ errors' = FALSE
        /\ native' \in 0 .. 1 /\ actions' \in Seq({"on", "off"})
        /\ UNCHANGED <<todo, got, changed, mem, file, ctl, synthetic, chosen, expired, faults,
                       changes, commands, promised, torn, unsaved>>
    BY <1>0 DEF CheckTimeout, Deactivate, FlagTypes, outside, bounds, notes
  <1>2. FlagTypes'
    BY <1>0, <1>1, EndsFacts DEF FlagTypes, Restoring
  <1>3. ReadTypes'
    BY <1>0, <1>1, EndsFacts DEF ReadTypes
  <1>4. StateTypes'
    BY <1>0, <1>1, EndsFacts DEF StateTypes
  <1>5. ControllerTypes'
    BY <1>0, <1>1, EndsFacts DEF ControllerTypes
  <1>6. Knows' /\ HasRead'
    BY <1>0, <1>1, EndsFacts DEF Knows, HasRead, MemOn, Starting, Syncing
  <1>7. Remembered' /\ Undone'
    BY <1>0, <1>1, EndsFacts DEF Remembered, Undone
  <1>8. Targets'
    BY <1>0, <1>1, EndsFacts
       DEF Targets, Settled, Unsettled, HasReadNormal, HasPutNormal, Starting, Restoring
  <1>9. QED
    BY <1>2, <1>3, <1>4, <1>5, <1>6, <1>7, <1>8 DEF EmulationInv

\* The button is polled.
LEMMA NativePollInv ==
    ASSUME EmulationInv, NativePoll
    PROVE  EmulationInv'
  <1>0. /\ FlagTypes /\ ReadTypes /\ StateTypes /\ ControllerTypes
        /\ Knows /\ HasRead /\ Remembered /\ Undone /\ Targets
    BY DEF EmulationInv
  <1>1. /\ pc = "loop" /\ native' \in 0 .. 1 /\ faults' \in 0 .. MaxFaults
        /\ UNCHANGED <<todo, got, changed, actions, mem, file, ctl, synthetic, chosen, expired,
                       changes, commands, promised, torn, unsaved>>
        /\ \/ pc' = "off_native" /\ caller' = "button" /\ errors' = FALSE
           \/ pc' = pc /\ caller' = caller /\ errors' = errors
    BY <1>0, FaultFacts
       DEF NativePoll, Deactivate, FlagTypes, ControllerTypes, local, outside, bounds, notes
  <1>2. FlagTypes'
    BY <1>0, <1>1, EndsFacts DEF FlagTypes, Restoring
  <1>3. ReadTypes'
    BY <1>0, <1>1, EndsFacts DEF ReadTypes
  <1>4. StateTypes'
    BY <1>0, <1>1, EndsFacts DEF StateTypes
  <1>5. ControllerTypes'
    BY <1>0, <1>1, EndsFacts DEF ControllerTypes
  <1>6. Knows' /\ HasRead'
    BY <1>0, <1>1, EndsFacts DEF Knows, HasRead, MemOn, Starting, Syncing
  <1>7. Remembered' /\ Undone'
    BY <1>0, <1>1, EndsFacts DEF Remembered, Undone
  <1>8. Targets'
    BY <1>0, <1>1, EndsFacts
       DEF Targets, Settled, Unsettled, HasReadNormal, HasPutNormal, Starting, Restoring
  <1>9. QED
    BY <1>2, <1>3, <1>4, <1>5, <1>6, <1>7, <1>8 DEF EmulationInv

\* deactivate looks at the button,
LEMMA OffNativeInv ==
    ASSUME EmulationInv, OffNative
    PROVE  EmulationInv'
  <1>0. /\ FlagTypes /\ ReadTypes /\ StateTypes /\ ControllerTypes
        /\ Knows /\ HasRead /\ Remembered /\ Undone /\ Targets
    BY DEF EmulationInv
  <1>1. /\ pc = "off_native" /\ faults' \in 0 .. MaxFaults /\ native' \in 0 .. 1
        /\ ctl'.normal = ctl.normal /\ ControllerTypes'
        /\ UNCHANGED <<mem, file, actions, synthetic, chosen, expired, changes, commands, promised, torn, unsaved>>
        /\ \/ pc' = "off_button" \/ (mem.active /\ pc' = "off_save")
           \/ ~mem.active /\ pc' \in {"loop", "down"}
        /\ IF pc' \in {"loop", "down"} THEN Ends ELSE errors' \in BOOLEAN /\ UNCHANGED <<todo, got, caller, changed>>
    <2>1. PICK failed \in BOOLEAN :
            /\ IF pc' \in {"loop", "down"} THEN Ends ELSE Collects(failed)
            /\ IF failed THEN Fault /\ UNCHANGED native ELSE native' = ctl.native /\ UNCHANGED faults
            /\ pc' = IF native' = 1 THEN "off_button" ELSE AfterNative(failed)
      BY DEF OffNative
    <2>2. faults' \in 0 .. MaxFaults /\ native' \in 0 .. 1 /\ ctl'.normal = ctl.normal /\ ControllerTypes'
      BY <1>0, <2>1, FaultFacts DEF OffNative, FlagTypes, ControllerTypes, outside
    <2>3. Collects(failed) => errors' \in BOOLEAN /\ UNCHANGED <<todo, got, caller, changed>>
      BY Zenon DEF Collects
    <2>4. /\ pc = "off_native"
          /\ UNCHANGED <<mem, file, actions, synthetic, chosen, expired, changes, commands, promised, torn, unsaved>>
      BY DEF OffNative, outside, bounds, notes
    <2>5. \/ pc' = "off_button" \/ (mem.active /\ pc' = "off_save")
          \/ ~mem.active /\ pc' \in {"loop", "down"}
      BY <2>1 DEF AfterNative, Ended, Raised
    <2>6. QED
      BY <2>1, <2>2, <2>3, <2>4, <2>5
  <1>2. FlagTypes'
    BY <1>0, <1>1, EndsFacts DEF FlagTypes, Restoring
  <1>3. ReadTypes'
    BY <1>0, <1>1, EndsFacts DEF ReadTypes
  <1>4. StateTypes'
    BY <1>0, <1>1, EndsFacts DEF StateTypes
  <1>5. Knows' /\ HasRead'
    BY <1>0, <1>1, EndsFacts DEF Knows, HasRead, MemOn, Starting, Syncing
  <1>6. Remembered' /\ Undone'
    BY <1>0, <1>1, EndsFacts DEF Remembered, Undone
  <1>7. Targets'
    BY <1>0, <1>1, EndsFacts
       DEF Targets, Settled, Unsettled, HasReadNormal, HasPutNormal, Starting, Restoring
  <1>8. QED
    BY <1>1, <1>2, <1>3, <1>4, <1>5, <1>6, <1>7 DEF EmulationInv

\* ... and releases it.
LEMMA OffButtonInv ==
    ASSUME EmulationInv, OffButton
    PROVE  EmulationInv'
  <1>0. /\ FlagTypes /\ ReadTypes /\ StateTypes /\ ControllerTypes
        /\ Knows /\ HasRead /\ Remembered /\ Undone /\ Targets
    BY DEF EmulationInv
  <1>1. /\ pc = "off_button" /\ faults' \in 0 .. MaxFaults /\ native' \in 0 .. 1
        /\ ctl'.normal = ctl.normal /\ ControllerTypes'
        /\ UNCHANGED <<mem, file, actions, synthetic, chosen, expired, changes, commands, promised, torn, unsaved>>
        /\ \/ pc' = "off_button" \/ (mem.active /\ pc' = "off_save")
           \/ ~mem.active /\ pc' \in {"loop", "down"}
        /\ IF pc' \in {"loop", "down"} THEN Ends ELSE errors' \in BOOLEAN /\ UNCHANGED <<todo, got, caller, changed>>
    <2>1. PICK failed \in BOOLEAN :
            /\ IF pc' \in {"loop", "down"} THEN Ends ELSE Collects(failed)
            /\ IF failed
               THEN Fault /\ ctl' \in {ctl, [ctl EXCEPT !.native = 0]} /\ UNCHANGED native
               ELSE ctl' = [ctl EXCEPT !.native = 0] /\ native' = 0 /\ UNCHANGED faults
            /\ pc' = AfterNative(failed \/ errors)
      BY DEF OffButton
    <2>2. faults' \in 0 .. MaxFaults /\ native' \in 0 .. 1 /\ ctl'.normal = ctl.normal /\ ControllerTypes'
      BY <1>0, <2>1, FaultFacts DEF OffButton, FlagTypes, ControllerTypes, outside
    <2>3. Collects(failed) => errors' \in BOOLEAN /\ UNCHANGED <<todo, got, caller, changed>>
      BY Zenon DEF Collects
    <2>4. /\ pc = "off_button"
          /\ UNCHANGED <<mem, file, actions, synthetic, chosen, expired, changes, commands, promised, torn, unsaved>>
      BY DEF OffButton, outside, bounds, notes
    <2>5. \/ pc' = "off_button" \/ (mem.active /\ pc' = "off_save")
          \/ ~mem.active /\ pc' \in {"loop", "down"}
      BY <2>1 DEF AfterNative, Ended, Raised
    <2>6. QED
      BY <2>1, <2>2, <2>3, <2>4, <2>5
  <1>2. FlagTypes'
    BY <1>0, <1>1, EndsFacts DEF FlagTypes, Restoring
  <1>3. ReadTypes'
    BY <1>0, <1>1, EndsFacts DEF ReadTypes
  <1>4. StateTypes'
    BY <1>0, <1>1, EndsFacts DEF StateTypes
  <1>5. Knows' /\ HasRead'
    BY <1>0, <1>1, EndsFacts DEF Knows, HasRead, MemOn, Starting, Syncing
  <1>6. Remembered' /\ Undone'
    BY <1>0, <1>1, EndsFacts DEF Remembered, Undone
  <1>7. Targets'
    BY <1>0, <1>1, EndsFacts
       DEF Targets, Settled, Unsettled, HasReadNormal, HasPutNormal, Starting, Restoring
  <1>8. QED
    BY <1>1, <1>2, <1>3, <1>4, <1>5, <1>6, <1>7 DEF EmulationInv

\* activate remembers what it has read before it writes.
LEMMA RememberInv ==
    ASSUME EmulationInv, Remember
    PROVE  EmulationInv'
  <1>0. /\ FlagTypes /\ ReadTypes /\ StateTypes /\ ControllerTypes
        /\ Knows /\ HasRead /\ Remembered /\ Undone /\ Targets
    BY DEF EmulationInv
  <1>1. /\ pc = "act_save" /\ ~mem.active /\ Fields \subseteq DOMAIN got
        /\ mem' = [active |-> TRUE, normal |-> got.normal, mode |-> got.mode, party |-> got.party]
        /\ promised' = mem' /\ expired' = FALSE /\ native' = 0
        /\ \/ file' = mem' /\ pc' = "act_normal" /\ unsaved' = unsaved
           \/ pc' = "loop" /\ unsaved' = TRUE /\ file' = file
        /\ faults' \in 0 .. MaxFaults
        /\ IF pc' = "loop" THEN Ends ELSE UNCHANGED <<todo, got, caller, errors, changed>>
        /\ UNCHANGED <<actions, ctl, synthetic, chosen, changes, commands, torn>>
    BY <1>0, FaultFacts DEF Remember, Goes, local, outside, bounds, Knows, HasRead, FlagTypes
  <1>2. /\ mem' \in States /\ mem'.active /\ mem'.normal = got.normal /\ mem'.party = got.party
    <2>1. got.normal \in Temps /\ got.mode \in Modes /\ got.party \in Temps
      BY <1>0, <1>1 DEF ReadTypes, Values, Fields
    <2>2. mem' \in [active : {TRUE}, normal : Temps, mode : Modes, party : Temps] /\ mem'.active = TRUE
      BY <1>1, <2>1
    <2>3. QED
      BY <1>1, <2>2 DEF States
  <1>3. FlagTypes'
    <2>1. /\ pc' \in {"loop", "act_normal"} /\ native' \in 0 .. 1 /\ faults' \in 0 .. MaxFaults
          /\ UNCHANGED <<actions, changes, commands, torn>>
      BY <1>1
    <2>2. expired' \in BOOLEAN /\ unsaved' \in BOOLEAN
      BY <1>0, <1>1 DEF FlagTypes
    <2>3. caller' \in {"command", "button", "timeout", "startup"} /\ errors' \in BOOLEAN /\ changed' \in BOOLEAN
      BY <1>0, <1>1, EndsFacts DEF FlagTypes
    <2>4. QED
      BY <1>0, <2>1, <2>2, <2>3 DEF FlagTypes, Activating
  <1>4. ReadTypes'
    BY <1>0, <1>1, <1>2, EndsFacts DEF ReadTypes
  <1>5. StateTypes'
    BY <1>0, <1>1, <1>2, EndsFacts DEF StateTypes
  <1>6. ControllerTypes'
    BY <1>0, <1>1, <1>2, EndsFacts DEF ControllerTypes
  <1>7. Knows' /\ HasRead'
    BY <1>0, <1>1, <1>2, EndsFacts DEF Knows, HasRead
  <1>8. Remembered' /\ Undone'
    BY <1>0, <1>1, <1>2, EndsFacts DEF Remembered, Undone
  <1>9. Targets'
    <2> SUFFICES ASSUME ~unsaved', ~torn' PROVE Targets'
      BY DEF Targets
    <2>1. ~unsaved /\ ~torn /\ pc' = "act_normal" /\ file' = mem' /\ UNCHANGED got
      BY <1>0, <1>1 DEF FlagTypes
    <2>2. Settled /\ HasReadNormal /\ synthetic = {} /\ "normal" \in DOMAIN got
      BY <1>0, <1>1, <2>1 DEF Targets, Remembered, Fields
    <2>3. got.normal \in chosen /\ ctl.normal \in chosen
      BY <1>1, <2>2 DEF Settled, HasReadNormal
    <2>4. Settled'
      BY <1>1, <1>2, <2>1, <2>2, <2>3 DEF Settled
    <2>5. QED
      BY <2>1, <2>4 DEF Targets, HasReadNormal, HasPutNormal
  <1>10. QED
    BY <1>3, <1>4, <1>5, <1>6, <1>7, <1>8, <1>9 DEF EmulationInv

\* The sync puts the party temperature back over the user's, which it remembers,
LEMMA SyncNormalInv ==
    ASSUME EmulationInv, SyncNormal
    PROVE  EmulationInv'
  <1>0. /\ FlagTypes /\ ReadTypes /\ StateTypes /\ ControllerTypes
        /\ Knows /\ HasRead /\ Remembered /\ Undone /\ Targets
    BY DEF EmulationInv
  <1> DEFINE target == IF UserChangedNormal THEN got.normal ELSE mem.normal
  <1>1. /\ pc = "sync_normal" /\ mem.active /\ Three \subseteq DOMAIN got
        /\ promised' = [promised EXCEPT !.normal = target]
        /\ UNCHANGED <<todo, got, caller, errors, native, file, actions, expired, changes, commands, unsaved>>
    BY <1>0 DEF SyncNormal, bounds, Knows, MemOn, Syncing, HasRead
  <1>2. /\ target \in Temps /\ got.party \in Temps /\ got.party \in Values("normal") /\ promised.active
    BY <1>0, <1>1, States1 DEF ReadTypes, StateTypes, Values, Three
  <1>3. /\ promised' \in States /\ promised'.active /\ changed' \in BOOLEAN
    <2>1. changed' \in BOOLEAN
      BY Zenon DEF SyncNormal
    <2>2. QED
      BY <1>0, <1>1, <1>2, <2>1, NormalReplaced DEF StateTypes
  <1>4. CASE /\ pc' = "sync_mode"
             /\ IF got.normal # got.party THEN Puts("normal", got.party, "emulation") ELSE UNCHANGED outside
             /\ mem' = [mem EXCEPT !.normal = target, !.party = got.party]
             /\ UNCHANGED <<faults, torn>>
    <2>1. mem' \in States /\ mem'.active /\ mem'.normal = target /\ mem'.party = got.party
      <3> HIDE DEF target
      <3>1. PICK t \in Temps, u \in Temps : t = target /\ u = got.party
        BY <1>2
      <3>2. mem' = [mem EXCEPT !.normal = t, !.party = u] /\ mem \in States
        BY <1>0, <1>4, <3>1 DEF StateTypes
      <3> DEFINE first == [mem EXCEPT !.normal = t]
      <3>3. first \in States /\ first.active /\ first.normal = t
        BY <1>1, <3>2, NormalReplaced
      <3>4. mem' = [first EXCEPT !.party = u]
        BY <3>2
      <3>5. mem' \in States /\ mem'.active /\ mem'.normal = t /\ mem'.party = u
        <4> HIDE DEF first
        <4> QED
          BY <3>3, <3>4, PartyReplaced
      <3>6. QED
        BY <3>1, <3>5
    <2>2. /\ ControllerTypes' /\ chosen' = chosen
          /\ IF got.normal # got.party
             THEN ctl'.normal = got.party /\ synthetic' = synthetic \cup {"normal"}
             ELSE ctl' = ctl /\ synthetic' = synthetic
      BY <1>0, <1>2, <1>4, PutsFacts DEF outside, ControllerTypes
    <2>3. FlagTypes'
      BY <1>0, <1>1, <1>3, <1>4 DEF FlagTypes, Syncing
    <2>4. ReadTypes' /\ StateTypes'
      BY <1>0, <1>1, <1>3, <2>1 DEF ReadTypes, StateTypes
    <2>5. Knows' /\ HasRead'
      BY <1>1, <1>4, <2>1 DEF Knows, HasRead
    <2>6. Remembered' /\ Undone'
      BY <1>0, <1>1, <1>4, <2>1, <2>2 DEF Remembered, Undone
    <2>7. Targets'
      <3> SUFFICES ASSUME ~unsaved', ~torn' PROVE Targets'
        BY DEF Targets
      <3>1. Settled /\ HasReadNormal /\ "normal" \in DOMAIN got
        BY <1>0, <1>1, <1>4 DEF Targets, Three, FlagTypes
      <3>2. got.normal \in chosen \cup {mem.party} /\ ctl.normal \in chosen \cup {got.normal} /\ mem.normal \in chosen
        BY <1>1, <3>1 DEF Settled, HasReadNormal
      <3>3. target \in chosen
        BY <3>2 DEF UserChangedNormal
      <3>4. ctl'.normal \in chosen \cup {got.party}
        BY <2>2, <3>2
      <3>5. Settled'
        BY <1>1, <2>1, <2>2, <3>1, <3>3, <3>4 DEF Settled
      <3>6. QED
        BY <1>4, <3>5 DEF Targets, HasReadNormal, HasPutNormal
    <2>8. QED
      BY <2>2, <2>3, <2>4, <2>5, <2>6, <2>7 DEF EmulationInv
  <1>5. CASE /\ got.normal # got.party
             /\ Fault /\ pc' = "sync_error"
             /\ \/ Puts("normal", got.party, "emulation") /\ torn' = TRUE
                \/ UNCHANGED <<outside, torn>>
             /\ mem' = [mem EXCEPT !.normal = target]
    <2>1. mem' \in States /\ mem'.active /\ mem'.normal = target /\ mem'.party = mem.party
      BY <1>0, <1>1, <1>2, <1>5, NormalReplaced DEF StateTypes
    <2>2. /\ ControllerTypes' /\ chosen' = chosen
          /\ \/ torn' = TRUE
             \/ torn' = torn /\ ctl' = ctl /\ synthetic' = synthetic
      BY <1>0, <1>2, <1>5, PutsFacts DEF outside, ControllerTypes
    <2>3. FlagTypes'
      BY <1>0, <1>1, <1>3, <1>5, FaultFacts DEF FlagTypes, Syncing
    <2>4. ReadTypes' /\ StateTypes'
      BY <1>0, <1>1, <1>3, <2>1 DEF ReadTypes, StateTypes
    <2>5. Knows' /\ HasRead'
      BY <1>1, <1>5, <2>1 DEF Knows, HasRead
    <2>6. Remembered' /\ Undone'
      BY <1>0, <1>1, <1>5, <2>1 DEF Remembered, Undone
    <2>7. Targets'
      <3> SUFFICES ASSUME ~unsaved', ~torn' PROVE Targets'
        BY DEF Targets
      <3>1. Settled /\ HasReadNormal /\ "normal" \in DOMAIN got /\ ctl' = ctl /\ synthetic' = synthetic
        BY <1>0, <1>1, <2>2 DEF Targets, Three, FlagTypes
      <3>2. got.normal \in chosen \cup {mem.party} /\ mem.normal \in chosen /\ ctl.normal \in chosen \cup {mem.party}
        BY <1>1, <3>1 DEF Settled, HasReadNormal
      <3>3. target \in chosen
        BY <3>2 DEF UserChangedNormal
      <3>4. Settled'
        BY <1>1, <2>1, <2>2, <3>1, <3>2, <3>3 DEF Settled
      <3>5. QED
        BY <1>5, <3>4 DEF Targets, HasReadNormal, HasPutNormal
    <2>8. QED
      BY <2>2, <2>3, <2>4, <2>5, <2>6, <2>7 DEF EmulationInv
  <1>6. QED
    BY <1>4, <1>5 DEF SyncNormal

\* ... and does the same with the mode.
LEMMA SyncModeInv ==
    ASSUME EmulationInv, SyncMode
    PROVE  EmulationInv'
  <1>0. /\ FlagTypes /\ ReadTypes /\ StateTypes /\ ControllerTypes
        /\ Knows /\ HasRead /\ Remembered /\ Undone /\ Targets
    BY DEF EmulationInv
  <1>1. /\ pc = "sync_mode" /\ mem.active /\ Three \subseteq DOMAIN got /\ promised.active
        /\ got.mode \in Modes /\ Four \in Values("mode")
        /\ UNCHANGED <<todo, got, caller, errors, native, file, actions, expired, changes, commands, torn, unsaved>>
    BY <1>0, PartyAssumption
       DEF SyncMode, bounds, Knows, MemOn, Syncing, HasRead, StateTypes, ReadTypes, Values, Three
  <1>2. /\ mem' \in States /\ mem'.active /\ mem'.normal = mem.normal /\ mem'.party = mem.party
        /\ promised' \in States /\ promised'.active
    <2>1. CASE got.mode = Four
      BY <1>0, <1>1, <2>1 DEF SyncMode, StateTypes
    <2>2. CASE got.mode # Four
      <3>1. mem' = [mem EXCEPT !.mode = got.mode] /\ promised' = [promised EXCEPT !.mode = got.mode]
        BY <2>2 DEF SyncMode
      <3>2. QED
        BY <1>0, <1>1, <3>1, ModeReplaced DEF StateTypes
    <2>3. QED
      BY <2>1, <2>2
  <1>3. /\ ControllerTypes' /\ chosen' = chosen /\ ctl'.normal = ctl.normal
        /\ synthetic' = synthetic \/ synthetic' = synthetic \cup {"mode"}
        /\ pc' \in {"sync_save", "sync_error"} /\ changed' \in BOOLEAN /\ faults' \in 0 .. MaxFaults
    BY <1>0, <1>1, PutsFacts, FaultFacts DEF SyncMode, outside, ControllerTypes, FlagTypes
  <1>4. FlagTypes'
    BY <1>0, <1>1, <1>2, <1>3 DEF FlagTypes, Syncing
  <1>5. ReadTypes'
    BY <1>0, <1>1, <1>2, <1>3 DEF ReadTypes
  <1>6. StateTypes'
    BY <1>0, <1>1, <1>2, <1>3 DEF StateTypes
  <1>7. Knows' /\ HasRead'
    BY <1>0, <1>1, <1>2, <1>3 DEF Knows, HasRead
  <1>8. Remembered' /\ Undone'
    BY <1>0, <1>1, <1>2, <1>3 DEF Remembered, Undone
  <1>9. Targets'
    BY <1>0, <1>1, <1>2, <1>3
       DEF Targets, Settled, Unsettled, HasReadNormal, HasPutNormal, Starting, Restoring
  <1>10. QED
    BY <1>3, <1>4, <1>5, <1>6, <1>7, <1>8, <1>9 DEF EmulationInv

\* A kill.
LEMMA KillInv ==
    ASSUME EmulationInv, Kill
    PROVE  EmulationInv'
  <1>0. /\ FlagTypes /\ ReadTypes /\ StateTypes /\ ControllerTypes
        /\ Knows /\ HasRead /\ Remembered /\ Undone /\ Targets
    BY DEF EmulationInv
  <1>1. /\ pc # "down" /\ pc' = "down" /\ Ends
        /\ UNCHANGED <<mem, native, file, actions, ctl, synthetic, chosen, expired,
                       changes, commands, promised, torn, unsaved>>
    BY <1>0 DEF Kill, outside, bounds, notes
  <1>2. faults' \in 0 .. MaxFaults
    BY <1>0, FaultFacts DEF Kill
  <1>3. FlagTypes'
    BY <1>0, <1>1, <1>2, EndsFacts DEF FlagTypes
  <1>4. ReadTypes'
    BY <1>0, <1>1, <1>2, EndsFacts DEF ReadTypes
  <1>5. StateTypes'
    BY <1>0, <1>1, <1>2, EndsFacts DEF StateTypes
  <1>6. ControllerTypes'
    BY <1>0, <1>1, <1>2, EndsFacts DEF ControllerTypes
  <1>7. Knows' /\ HasRead'
    BY <1>0, <1>1, <1>2, EndsFacts DEF Knows, HasRead, MemOn, Starting, Syncing
  <1>8. Remembered' /\ Undone'
    BY <1>0, <1>1, <1>2, EndsFacts DEF Remembered, Undone
  <1>9. Targets'
    BY <1>0, <1>1, <1>2, EndsFacts DEF Targets, Settled, Unsettled, HasReadNormal, HasPutNormal
  <1>10. QED
    BY <1>3, <1>4, <1>5, <1>6, <1>7, <1>8, <1>9 DEF EmulationInv

\* A restart.
LEMMA RestartInv ==
    ASSUME EmulationInv, Restart
    PROVE  EmulationInv'
  <1>0. /\ FlagTypes /\ ReadTypes /\ StateTypes /\ ControllerTypes
        /\ Knows /\ HasRead /\ Remembered /\ Undone /\ Targets
    BY DEF EmulationInv
  <1>1. /\ pc = "down" /\ pc' = "start" /\ mem' = file /\ native' = 0 /\ actions' = <<>>
        /\ UNCHANGED <<todo, got, caller, errors, changed, file, ctl, synthetic, chosen, expired, faults,
                       changes, commands, promised, torn, unsaved>>
    BY <1>0 DEF Restart, local, outside, bounds, notes
  <1>2. FlagTypes'
    BY <1>0, <1>1 DEF FlagTypes, Starting
  <1>3. ReadTypes'
    BY <1>0, <1>1 DEF ReadTypes
  <1>4. StateTypes'
    BY <1>0, <1>1 DEF StateTypes
  <1>5. ControllerTypes'
    BY <1>0, <1>1 DEF ControllerTypes
  <1>6. Knows' /\ HasRead'
    BY <1>0, <1>1 DEF Knows, HasRead, MemOn, Syncing
  <1>7. Remembered' /\ Undone'
    BY <1>0, <1>1 DEF Remembered, Undone
  <1>8. Targets'
    BY <1>0, <1>1 DEF Targets, Settled, Unsettled, HasReadNormal, HasPutNormal, Starting
  <1>9. QED
    BY <1>2, <1>3, <1>4, <1>5, <1>6, <1>7, <1>8 DEF EmulationInv

\* A command arrives.
LEMMA CommandInv ==
    ASSUME EmulationInv, NEW action \in {"on", "off"}, Command(action)
    PROVE  EmulationInv'
  <1>0. /\ FlagTypes /\ ReadTypes /\ StateTypes /\ ControllerTypes
        /\ Knows /\ HasRead /\ Remembered /\ Undone /\ Targets
    BY DEF EmulationInv
  <1>1. /\ actions' \in Seq({"on", "off"}) /\ commands' \in 0 .. MaxCommands
        /\ UNCHANGED <<pc, todo, got, caller, errors, changed, mem, native, file, ctl, synthetic, chosen, expired,
                       faults, changes, promised, torn, unsaved>>
    <2>1. commands' \in 0 .. MaxCommands
      BY <1>0, PartyAssumption DEF Command, FlagTypes
    <2>2. actions' \in Seq({"on", "off"})
      BY <1>0 DEF Command, FlagTypes
    <2>3. QED
      BY <2>1, <2>2 DEF Command, local, outside, notes
  <1>2. FlagTypes'
    BY <1>0, <1>1 DEF FlagTypes
  <1>3. ReadTypes'
    BY <1>0, <1>1 DEF ReadTypes
  <1>4. StateTypes'
    BY <1>0, <1>1 DEF StateTypes
  <1>5. ControllerTypes'
    BY <1>0, <1>1 DEF ControllerTypes
  <1>6. Knows' /\ HasRead'
    BY <1>0, <1>1 DEF Knows, HasRead
  <1>7. Remembered' /\ Undone'
    BY <1>0, <1>1 DEF Remembered, Undone
  <1>8. Targets'
    BY <1>0, <1>1 DEF Targets, Settled, Unsettled, HasReadNormal, HasPutNormal
  <1>9. QED
    BY <1>2, <1>3, <1>4, <1>5, <1>6, <1>7, <1>8 DEF EmulationInv

\* The user changes a value at the controller.
LEMMA UserInv ==
    ASSUME EmulationInv, NEW field \in Fields, NEW value \in Values(field), User(field, value)
    PROVE  EmulationInv'
  <1>0. /\ FlagTypes /\ ReadTypes /\ StateTypes /\ ControllerTypes
        /\ Knows /\ HasRead /\ Remembered /\ Undone /\ Targets
    BY DEF EmulationInv
  <1>1. /\ changes' \in 0 .. MaxChanges
        /\ ctl' = [ctl EXCEPT ![field] = value] /\ synthetic' = synthetic \ {field}
        /\ chosen' = IF field = "normal" THEN chosen \cup {value} ELSE chosen
        /\ UNCHANGED <<pc, todo, got, caller, errors, changed, mem, native, file, actions, expired, faults, commands,
                       promised, torn, unsaved>>
    <2>1. changes' \in 0 .. MaxChanges
      BY <1>0, PartyAssumption DEF User, FlagTypes
    <2>2. QED
      BY <2>1 DEF User, local, notes
  <1>2. /\ ControllerTypes' /\ chosen \subseteq chosen' /\ synthetic' \subseteq synthetic
        /\ IF field = "normal" THEN ctl'.normal \in chosen' ELSE ctl'.normal = ctl.normal
        /\ field # "normal" => ("normal" \in synthetic' <=> "normal" \in synthetic)
    BY <1>0, <1>1 DEF ControllerTypes, Fields, Values
  <1>3. FlagTypes'
    BY <1>0, <1>1, <1>2 DEF FlagTypes
  <1>4. ReadTypes'
    BY <1>0, <1>1, <1>2 DEF ReadTypes
  <1>5. StateTypes'
    BY <1>0, <1>1, <1>2 DEF StateTypes
  <1>6. Knows' /\ HasRead'
    BY <1>0, <1>1, <1>2 DEF Knows, HasRead
  <1>7. Remembered' /\ Undone'
    BY <1>0, <1>1, <1>2 DEF Remembered, Undone
  <1>8. Targets'
    BY <1>0, <1>1, <1>2 DEF Targets, Settled, Unsettled, HasReadNormal, HasPutNormal
  <1>9. QED
    BY <1>2, <1>3, <1>4, <1>5, <1>6, <1>7, <1>8 DEF EmulationInv

\* The limit passes.
LEMMA LimitInv ==
    ASSUME EmulationInv, Limit
    PROVE  EmulationInv'
  <1>0. /\ FlagTypes /\ ReadTypes /\ StateTypes /\ ControllerTypes
        /\ Knows /\ HasRead /\ Remembered /\ Undone /\ Targets
    BY DEF EmulationInv
  <1>1. /\ expired' = TRUE
        /\ UNCHANGED <<pc, todo, got, caller, errors, changed, mem, native, file, actions, ctl, synthetic, chosen,
                       faults, changes, commands, promised, torn, unsaved>>
    BY <1>0 DEF Limit, local, outside, bounds, notes
  <1>2. FlagTypes'
    BY <1>0, <1>1 DEF FlagTypes
  <1>3. ReadTypes'
    BY <1>0, <1>1 DEF ReadTypes
  <1>4. StateTypes'
    BY <1>0, <1>1 DEF StateTypes
  <1>5. ControllerTypes'
    BY <1>0, <1>1 DEF ControllerTypes
  <1>6. Knows' /\ HasRead'
    BY <1>0, <1>1 DEF Knows, HasRead
  <1>7. Remembered' /\ Undone'
    BY <1>0, <1>1 DEF Remembered, Undone
  <1>8. Targets'
    BY <1>0, <1>1 DEF Targets, Settled, Unsettled, HasReadNormal, HasPutNormal
  <1>9. QED
    BY <1>2, <1>3, <1>4, <1>5, <1>6, <1>7, <1>8 DEF EmulationInv

\* The emulation starts within the invariant.
LEMMA InitEmulationInv == Init => EmulationInv
  <1> SUFFICES ASSUME Init PROVE EmulationInv
    OBVIOUS
  <1>1. Off \in States /\ ~Off.active
    BY DEF States, Off
  <1>2. /\ pc = "start" /\ mem = Off /\ file = Off /\ promised = Off /\ synthetic = {} /\ chosen = {ctl.normal}
        /\ todo = <<>> /\ got = <<>>
        /\ ctl \in [native : {0}, mode : Modes, normal : Temps, party : Temps]
    BY DEF Init
  <1>3. <<>> \in Seq(Fields) /\ DOMAIN <<>> = {}
    OBVIOUS
  <1>4. FlagTypes
    <2>1. 0 \in 0 .. MaxFaults /\ 0 \in 0 .. MaxChanges /\ 0 \in 0 .. MaxCommands /\ 0 \in 0 .. 1
      BY PartyAssumption
    <2>2. <<>> \in Seq({"on", "off"})
      OBVIOUS
    <2>3. QED
      BY <2>1, <2>2 DEF Init, FlagTypes, Starting
  <1>5. ReadTypes /\ StateTypes
    BY <1>1, <1>2, <1>3 DEF ReadTypes, StateTypes
  <1>6. ControllerTypes
    BY <1>2 DEF ControllerTypes
  <1>7. Knows /\ HasRead /\ Remembered /\ Undone
    BY <1>1, <1>2 DEF Knows, HasRead, Remembered, Undone, MemOn, Syncing
  <1>8. Targets
    BY <1>1, <1>2, <1>3 DEF Targets, Settled, HasReadNormal, HasPutNormal
  <1>9. QED
    BY <1>4, <1>5, <1>6, <1>7, <1>8 DEF EmulationInv

\* Every step keeps it.
LEMMA NextEmulationInv == EmulationInv /\ [Next]_vars => EmulationInv'
  <1> SUFFICES ASSUME EmulationInv, [Next]_vars PROVE EmulationInv'
    OBVIOUS
  <1>1. CASE Startup
    BY <1>1, RecoverInv, UpReadInv, UpNormalInv, UpModeInv, UpSaveInv DEF Startup
  <1>2. CASE Activate
    BY <1>2, TakeOnInv, ActReadInv, RememberInv, NativeIsOnInv, ActNormalInv, ActModeInv,
       ActDoneInv, RollbackSaveInv, RollbackNormalInv, RollbackModeInv, RollbackClearInv,
       RollbackErrorInv
       DEF Activate
  <1>3. CASE Restore
    BY <1>3, TakeOffInv, CheckTimeoutInv, NativePollInv, OffNativeInv, OffButtonInv, OffSaveInv,
       OffNormalInv, OffModeInv, OffClearInv, OffErrorInv
       DEF Restore
  <1>4. CASE Synchronize
    BY <1>4, SyncInv, SyncReadInv, SyncNormalInv, SyncModeInv, SyncSaveInv, SyncErrorInv
       DEF Synchronize
  <1>5. CASE Restart
    BY <1>5, RestartInv
  <1>6. CASE Kill \/ Limit \/ \E action \in {"on", "off"} : Command(action)
    BY <1>6, KillInv, LimitInv, CommandInv
  <1>7. CASE \/ \E t \in Temps : User("normal", t) \/ User("party", t)
             \/ \E m \in Modes : User("mode", m)
             \/ \E bit \in 0 .. 1 : User("native", bit)
    <2>1. \E field \in Fields : \E value \in Values(field) : User(field, value)
      BY <1>7 DEF Fields, Values
    <2>2. QED
      BY <2>1, UserInv
  <1>8. CASE UNCHANGED vars
    <2>1. UNCHANGED <<pc, todo, got, caller, errors, changed, mem, native, file, actions, ctl, synthetic, chosen,
                      expired, faults, changes, commands, promised, torn, unsaved>>
      BY <1>8 DEF vars, local, outside, bounds, notes
    <2>2. QED
      BY <2>1
         DEF EmulationInv, FlagTypes, ReadTypes, StateTypes, ControllerTypes, Knows, HasRead,
             Remembered, Undone, Targets, Settled, Unsettled, HasReadNormal, HasPutNormal
  <1>9. QED
    BY <1>1, <1>2, <1>3, <1>4, <1>5, <1>6, <1>7, <1>8 DEF Next, Main, Environment

\* Every reachable state satisfies the inductive invariant.
LEMMA SpecEmulationInv == Spec => []EmulationInv
  BY InitEmulationInv, NextEmulationInv, PTL DEF Spec

-----------------------------------------------------------------------------
\* Whatever the emulation has put on the controller is covered by the state file unless a
\* save has failed, through every kill and restart (activate, deactivate,
\* rollback_activation, recover_startup, sync_emulated_controls).
THEOREM PartySafe == Spec => []PartyInv
  <1>1. EmulationInv => PartyInv
    <2> SUFFICES ASSUME EmulationInv PROVE PartyInv
      OBVIOUS
    <2>1. TypeOK
      BY DEF EmulationInv, FlagTypes, ReadTypes, StateTypes, ControllerTypes, Knows, MemOn, TypeOK,
             Fields
    <2>2. SyntheticIsRemembered
      BY DEF EmulationInv, Remembered, SyntheticIsRemembered
    <2>3. QED
      BY <2>1, <2>2 DEF PartyInv
  <1>2. QED
    BY <1>1, SpecEmulationInv, PTL

\* The emulation never takes its own Party temperature for what the user wants back,
\* unless a sync could not record it or a save failed (sync_emulated_controls).
THEOREM TargetsAreUsers == Spec => []RestoreTargetIsUsers
  <1>1. EmulationInv => RestoreTargetIsUsers
    BY DEF EmulationInv, Targets, Settled, RestoreTargetIsUsers
  <1>2. QED
    BY <1>1, SpecEmulationInv, PTL
=============================================================================
