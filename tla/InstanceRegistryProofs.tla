----------------------- MODULE InstanceRegistryProofs -----------------------
(***************************************************************************)
(* Proofs about InstanceRegistry, for every set of connections, plugin     *)
(* instances, project directories and plugin keys.                         *)
(***************************************************************************)
EXTENDS InstanceRegistry, WellFoundedInduction, TLAPS

-----------------------------------------------------------------------------
(* The inductive invariant *)

\* A connection that never registered is nobody's, and one that was closed before
\* it registered was closed by the revocation of its key.
ConnectionInv ==
    /\ keyOf \in [Conn -> Key \cup {None}]
    /\ inst \in [Conn -> Instance \cup {None}]
    /\ \A c \in Conn :
        /\ phase[c] \in {"fresh", "verified"} => inst[c] = None
        /\ phase[c] = "closing" /\ inst[c] = None => keyOf[c] \in revoked

\* Sequences come from the counter; only an instance of a directory that speaks
\* the protocol contends for it.
RecordInv ==
    /\ nextSequence \in Nat
    /\ \A i \in Instance :
        /\ records[i].state # "absent" => records[i].sequence < nextSequence
        /\ records[i].state \in {"controllable", "conflicting"} => i \notin Incompatible
    /\ \A d \in Directory : ownership[d] \in d \cup {None}

RegistryInv ==
    /\ RegistryTypeOK
    /\ ConnectionInv
    /\ RecordInv
    /\ OneOwnerPerDirectory
    /\ PresenceCurrent

-----------------------------------------------------------------------------
(* Directories, contenders and heirs *)

\* An instance has one directory.
LEMMA InDirectory ==
    ASSUME NEW i \in Instance
    PROVE  /\ DirectoryOf(i) \in Directory /\ i \in DirectoryOf(i)
           /\ \A d \in Directory : i \in d <=> d = DirectoryOf(i)
  <1>1. \E d \in Directory : i \in d
    BY RegistryAssumption
  <1>2. DirectoryOf(i) \in Directory /\ i \in DirectoryOf(i)
    BY <1>1 DEF DirectoryOf
  <1>3. QED
    BY <1>2, RegistryAssumption

\* A set of records that is not empty has one that registered first.
LEMMA FirstExists ==
    ASSUME NEW S, S # {}, NEW seq \in [S -> Nat]
    PROVE  \E h \in S : \A j \in S : seq[h] <= seq[j]
  <1> DEFINE T == {seq[j] : j \in S}
  <1>1. T \in SUBSET Nat /\ T # {}
    OBVIOUS
  <1>2. PICK x \in T : \A y \in T : ~(<<y, x>> \in OpToRel(<, Nat))
    BY <1>1, NatLessThanWellFounded, WFMin
  <1>3. PICK h \in S : seq[h] = x
    BY <1>2
  <1>4. ASSUME NEW j \in S
        PROVE  seq[h] <= seq[j]
    <2>1. seq[j] \in T /\ seq[j] \in Nat /\ seq[h] \in Nat
      OBVIOUS
    <2>2. ~(seq[j] < seq[h])
      BY <1>2, <1>3, <2>1 DEF OpToRel
    <2>3. QED
      BY <2>1, <2>2
  <1>5. QED
    BY <1>4

\* promote: either nobody can be told and all contenders go, or one heir is found,
\* who registered before every contender that is left.
LEMMA OneHeir ==
    ASSUME NEW d \in SUBSET Instance, NEW recs \in [Instance -> Record], NEW sock,
           \A i, j \in Contenders(d, recs) : i # j => recs[i].sequence # recs[j].sequence
    PROVE  \/ Heir(d, recs, sock) = {} /\ PassedOver(d, recs, sock) = Contenders(d, recs)
           \/ \E h \in Contenders(d, recs) :
                /\ Heir(d, recs, sock) = {h} /\ h \notin PassedOver(d, recs, sock)
                /\ \A j \in Contenders(d, recs) :
                    j \notin PassedOver(d, recs, sock) /\ j # h => recs[h].sequence < recs[j].sequence
  <1> DEFINE R == Lasting(d, recs, sock)
  <1>1. R \subseteq Contenders(d, recs) /\ Contenders(d, recs) \subseteq d
    BY DEF Lasting, Contenders
  <1>2. \A j \in d : recs[j].sequence \in Nat
    BY DEF Record
  <1>3. CASE R = {}
    BY <1>3 DEF Heir, PassedOver
  <1>4. CASE R # {}
    <2>1. PICK h \in R : \A j \in R : recs[h].sequence <= recs[j].sequence
      <3> DEFINE seq == [j \in R |-> recs[j].sequence]
      <3>1. seq \in [R -> Nat]
        BY <1>1, <1>2
      <3>2. \E h \in R : \A j \in R : seq[h] <= seq[j]
        <4> HIDE DEF seq, R
        <4>1. QED
          BY <1>4, <3>1, FirstExists
      <3>3. QED
        BY <3>2
    <2>2. Heir(d, recs, sock) = {h}
      BY <1>1, <1>2, <2>1 DEF Heir
    <2>3. h \notin PassedOver(d, recs, sock)
      BY <1>1, <1>2, <2>1 DEF PassedOver
    <2>4. ASSUME NEW j \in Contenders(d, recs), j \notin PassedOver(d, recs, sock), j # h
          PROVE  recs[h].sequence < recs[j].sequence
      <3>1. PICK k \in R : ~(recs[j].sequence < recs[k].sequence)
        BY <2>4 DEF PassedOver
      <3>2. recs[h].sequence <= recs[k].sequence /\ recs[h].sequence # recs[j].sequence
        BY <1>1, <2>1, <2>4
      <3>3. QED
        BY <1>1, <1>2, <2>1, <2>4, <3>1, <3>2
    <2>5. QED
      BY <1>1, <2>2, <2>3, <2>4
  <1>5. QED
    BY <1>3, <1>4

-----------------------------------------------------------------------------
(* What disconnect does *)

Gone(C) == {i \in Instance : records[i].connection \in C}
Without(C) == [i \in Instance |-> IF i \in Gone(C) THEN Offline(records[i]) ELSE records[i]]
Orphaned(C) == {d \in Directory : ownership[d] \in Gone(C)}
Heirs(C, sock) == UNION {Heir(d, Without(C), sock) : d \in Orphaned(C)}
Lost(C, sock) == UNION {PassedOver(d, Without(C), sock) : d \in Orphaned(C)}

\* The parts of disconnect by those names.
LEMMA DisconnectParts ==
    ASSUME NEW C, NEW sock, NEW graceful, Disconnect(C, sock, graceful)
    PROVE  /\ records' = [i \in Instance |->
                IF i \in Heirs(C, sock) THEN [Without(C)[i] EXCEPT !.state = "controllable"]
                ELSE IF i \in Lost(C, sock) THEN Offline(Without(C)[i]) ELSE Without(C)[i]]
           /\ ownership' = [d \in Directory |->
                IF d \notin Orphaned(C) THEN ownership[d]
                ELSE IF d \cap Heirs(C, sock) = {} THEN None
                ELSE CHOOSE i \in d \cap Heirs(C, sock) : TRUE]
           /\ phase' = [c \in Conn |->
                IF c \in {Without(C)[i].connection : i \in Lost(C, sock)} THEN "gone"
                ELSE IF c \notin C THEN phase[c]
                ELSE IF graceful /\ socket[c] = "open" THEN "closing" ELSE "gone"]
           /\ socket' = sock
           /\ published' = PublishAfter(Gone(C), records', sock)
           /\ UNCHANGED <<keyOf, inst, nextSequence>>
  BY DEF Disconnect, Gone, Without, Orphaned, Heirs, Lost

\* The records once those of the connections C are offline.
LEMMA WithoutRecords ==
    ASSUME RegistryInv, NEW C \in SUBSET Conn
    PROVE  /\ Without(C) \in [Instance -> Record]
           /\ \A i \in Instance :
                /\ Without(C)[i].sequence = records[i].sequence
                /\ i \in Gone(C) => Without(C)[i].state = "offline" /\ Without(C)[i].connection = None
                /\ i \notin Gone(C) => Without(C)[i] = records[i]
  <1>1. records \in [Instance -> Record]
    BY DEF RegistryInv, RegistryTypeOK
  <1>2. ASSUME NEW i \in Instance
        PROVE  /\ Offline(records[i]) \in Record
               /\ Offline(records[i]).sequence = records[i].sequence
               /\ Offline(records[i]).state = "offline" /\ Offline(records[i]).connection = None
    BY <1>1 DEF Offline, Record
  <1>3. QED
    BY <1>1, <1>2 DEF Without

\* A contender is held back as conflicting, on a connection that is not among C.
LEMMA ContendersOf ==
    ASSUME RegistryInv, NEW C \in SUBSET Conn, NEW d \in Directory
    PROVE  Contenders(d, Without(C)) = {i \in d : i \notin Gone(C) /\ records[i].state = "conflicting"}
  <1>1. d \subseteq Instance
    BY RegistryAssumption
  <1>2. \A i \in Instance : records[i].state = "conflicting" => records[i].connection # None
    BY DEF RegistryInv, RegistryTypeOK, Connected
  <1>3. QED
    BY <1>1, <1>2, WithoutRecords DEF Contenders

\* The heirs and the passed over of a directory that loses its owner.
LEMMA HeirsOf ==
    ASSUME RegistryInv, NEW C \in SUBSET Conn, NEW sock, NEW d \in Orphaned(C)
    PROVE  /\ d \in Directory /\ d \subseteq Instance
           /\ d \cap Heirs(C, sock) = Heir(d, Without(C), sock)
           /\ d \cap Lost(C, sock) = PassedOver(d, Without(C), sock)
           /\ \/ /\ d \cap Heirs(C, sock) = {}
                 /\ d \cap Lost(C, sock) = Contenders(d, Without(C))
              \/ \E h \in Contenders(d, Without(C)) :
                 /\ d \cap Heirs(C, sock) = {h} /\ h \notin Lost(C, sock)
                 /\ \A j \in Contenders(d, Without(C)) :
                        j \notin Lost(C, sock) /\ j # h => records[h].sequence < records[j].sequence
  <1>1. d \in Directory /\ d \subseteq Instance
    BY RegistryAssumption DEF Orphaned
  <1>2. ASSUME NEW e \in Directory
        PROVE  /\ Heir(e, Without(C), sock) \subseteq e /\ PassedOver(e, Without(C), sock) \subseteq e
               /\ e # d => e \cap d = {}
    BY <1>1, RegistryAssumption DEF Heir, PassedOver, Lasting, Contenders
  <1>3. d \cap Heirs(C, sock) = Heir(d, Without(C), sock)
    BY <1>1, <1>2 DEF Heirs, Orphaned
  <1>4. d \cap Lost(C, sock) = PassedOver(d, Without(C), sock)
    BY <1>1, <1>2 DEF Lost, Orphaned
  <1>5. \A i, j \in Contenders(d, Without(C)) : i # j => Without(C)[i].sequence # Without(C)[j].sequence
    BY <1>1, ContendersOf, WithoutRecords DEF RegistryInv, RegistryTypeOK
  <1>6. /\ Contenders(d, Without(C)) \subseteq d
        /\ \A j \in d : Without(C)[j].sequence = records[j].sequence
    BY <1>1, WithoutRecords DEF Contenders
  <1>7. QED
    BY <1>1, <1>3, <1>4, <1>5, <1>6, OneHeir, WithoutRecords

\* Heirs and passed over are contenders, on other connections than C, of a
\* directory that loses its owner; and nobody is both.
LEMMA HeirsAndLost ==
    ASSUME RegistryInv, NEW C \in SUBSET Conn, NEW sock, NEW i \in Heirs(C, sock) \cup Lost(C, sock)
    PROVE  /\ i \in Instance /\ i \notin Gone(C) /\ DirectoryOf(i) \in Orphaned(C)
           /\ records[i].state = "conflicting" /\ records[i].connection # None
           /\ ~(i \in Heirs(C, sock) /\ i \in Lost(C, sock))
  <1>1. PICK d \in Orphaned(C) : i \in Heir(d, Without(C), sock) \cup PassedOver(d, Without(C), sock)
    BY DEF Heirs, Lost
  <1>2. d \in Directory /\ d \subseteq Instance /\ i \in Contenders(d, Without(C)) /\ i \in d
    BY <1>1, HeirsOf DEF Heir, PassedOver, Lasting, Contenders
  <1>3. DirectoryOf(i) = d
    BY <1>2, InDirectory
  <1>4. i \notin Gone(C) /\ records[i].state = "conflicting"
    BY <1>2, ContendersOf
  <1>5. records[i].connection # None
    BY <1>2, <1>4 DEF RegistryInv, RegistryTypeOK, Connected
  <1>6. QED
    BY <1>1, <1>2, <1>3, <1>4, <1>5, HeirsOf

\* What becomes of each record.
LEMMA DisconnectRecords ==
    ASSUME RegistryInv, NEW C \in SUBSET Conn, NEW sock, NEW graceful, Disconnect(C, sock, graceful)
    PROVE  /\ records' \in [Instance -> Record]
           /\ \A i \in Instance :
                /\ records'[i].sequence = records[i].sequence
                /\ i \in Gone(C) \cup Lost(C, sock) =>
                        records'[i].state = "offline" /\ records'[i].connection = None
                /\ i \in Heirs(C, sock) =>
                        /\ records'[i].state = "controllable"
                        /\ records'[i].connection = records[i].connection
                /\ i \notin Gone(C) \cup Lost(C, sock) \cup Heirs(C, sock) => records'[i] = records[i]
  <1>1. Without(C) \in [Instance -> Record]
    BY WithoutRecords
  <1>2. records' = [i \in Instance |->
                IF i \in Heirs(C, sock) THEN [Without(C)[i] EXCEPT !.state = "controllable"]
                ELSE IF i \in Lost(C, sock) THEN Offline(Without(C)[i]) ELSE Without(C)[i]]
    BY DisconnectParts
  <1>3. ASSUME NEW i \in Instance
        PROVE  /\ records'[i] \in Record
               /\ records'[i].sequence = records[i].sequence
               /\ i \in Gone(C) \cup Lost(C, sock) =>
                        records'[i].state = "offline" /\ records'[i].connection = None
               /\ i \in Heirs(C, sock) =>
                        /\ records'[i].state = "controllable"
                        /\ records'[i].connection = records[i].connection
               /\ i \notin Gone(C) \cup Lost(C, sock) \cup Heirs(C, sock) => records'[i] = records[i]
    <2>1. /\ Without(C)[i] \in Record /\ Without(C)[i].sequence = records[i].sequence
          /\ i \in Gone(C) => Without(C)[i].state = "offline" /\ Without(C)[i].connection = None
          /\ i \notin Gone(C) => Without(C)[i] = records[i]
      BY <1>1, WithoutRecords
    <2>2. CASE i \in Heirs(C, sock)
      <3>1. i \notin Gone(C) /\ i \notin Lost(C, sock)
        BY <2>2, HeirsAndLost
      <3>2. records'[i] = [records[i] EXCEPT !.state = "controllable"] /\ records[i] \in Record
        BY <1>2, <2>1, <2>2, <3>1
      <3>3. QED
        BY <2>2, <3>1, <3>2 DEF Record, Connected
    <2>3. CASE i \in Lost(C, sock)
      <3>1. i \notin Gone(C) /\ i \notin Heirs(C, sock)
        BY <2>3, HeirsAndLost
      <3>2. records'[i] = Offline(records[i]) /\ records[i] \in Record
        BY <1>2, <2>1, <2>3, <3>1
      <3>3. QED
        BY <2>3, <3>1, <3>2 DEF Record, Offline
    <2>4. CASE i \notin Heirs(C, sock) \cup Lost(C, sock)
      BY <1>2, <2>1, <2>4
    <2>5. QED
      BY <2>2, <2>3, <2>4
  <1>4. QED
    BY <1>2, <1>3

\* What becomes of each directory: it keeps an owner who is still connected; it has
\* none when all its contenders are gone; or its first contender has it.
LEMMA DisconnectOwners ==
    ASSUME RegistryInv, NEW C \in SUBSET Conn, NEW sock, NEW graceful, Disconnect(C, sock, graceful),
           NEW d \in Directory
    PROVE  /\ ownership[d] \notin Gone(C) => ownership'[d] = ownership[d] /\ d \cap Heirs(C, sock) = {}
           /\ ownership[d] \in Gone(C) =>
                LET left == {j \in d : /\ records[j].state = "conflicting"
                                       /\ j \notin Gone(C) \cup Lost(C, sock)}
                IN  \/ ownership'[d] = None /\ d \cap Heirs(C, sock) = {} /\ left = {}
                    \/ /\ ownership'[d] \in d /\ d \cap Heirs(C, sock) = {ownership'[d]}
                       /\ \A j \in left \ {ownership'[d]} :
                            records[ownership'[d]].sequence < records[j].sequence
  <1>1. ownership'[d] = IF d \notin Orphaned(C) THEN ownership[d]
                        ELSE IF d \cap Heirs(C, sock) = {} THEN None
                        ELSE CHOOSE i \in d \cap Heirs(C, sock) : TRUE
    <2>1. ownership' = [e \in Directory |->
                IF e \notin Orphaned(C) THEN ownership[e]
                ELSE IF e \cap Heirs(C, sock) = {} THEN None
                ELSE CHOOSE i \in e \cap Heirs(C, sock) : TRUE]
      BY DisconnectParts
    <2>2. QED
      BY <2>1, Zenon
  <1>2. CASE ownership[d] \notin Gone(C)
    <2>1. d \notin Orphaned(C)
      BY <1>2 DEF Orphaned
    <2>2. d \cap Heirs(C, sock) = {}
      BY <2>1, HeirsAndLost, InDirectory
    <2>3. QED
      BY <1>1, <1>2, <2>1, <2>2
  <1>3. CASE ownership[d] \in Gone(C)
    <2>1. d \in Orphaned(C)
      BY <1>3 DEF Orphaned
    <2>2. \A j \in d : j \in Contenders(d, Without(C)) <=> j \notin Gone(C) /\ records[j].state = "conflicting"
      BY ContendersOf
    <2>3. CASE /\ d \cap Heirs(C, sock) = {}
               /\ d \cap Lost(C, sock) = Contenders(d, Without(C))
      BY <1>1, <1>3, <2>1, <2>2, <2>3
    <2>4. ASSUME NEW h \in Contenders(d, Without(C)),
                 d \cap Heirs(C, sock) = {h}, h \notin Lost(C, sock),
                 \A j \in Contenders(d, Without(C)) :
                    j \notin Lost(C, sock) /\ j # h => records[h].sequence < records[j].sequence
          PROVE  /\ ownership'[d] = h /\ h \in d
                 /\ \A j \in d : /\ records[j].state = "conflicting"
                                 /\ j \notin Gone(C) \cup Lost(C, sock)
                                 /\ j # h
                                 => records[h].sequence < records[j].sequence
      <3>1. ownership'[d] = h /\ h \in d
        BY <1>1, <2>1, <2>4
      <3>2. QED
        BY <2>2, <2>4, <3>1
    <2>5. QED
      BY <1>3, <2>1, <2>3, <2>4, HeirsOf
  <1>4. QED
    BY <1>2, <1>3

\* What becomes of the connections.
LEMMA DisconnectPhases ==
    ASSUME RegistryInv, NEW C \in SUBSET Conn, NEW sock, NEW graceful, Disconnect(C, sock, graceful)
    PROVE  /\ phase' \in [Conn -> Phase]
           /\ \A c \in Conn :
                /\ phase'[c] \in {phase[c], "closing", "gone"}
                /\ phase'[c] = "closing" => phase[c] = "closing" \/ (c \in C /\ graceful)
                /\ phase'[c] = "live" =>
                        /\ phase[c] = "live" /\ c \notin C
                        /\ \A j \in Lost(C, sock) : records[j].connection # c
                /\ phase[c] = "live" /\ c \notin C /\ (\A j \in Lost(C, sock) : records[j].connection # c)
                        => phase'[c] = "live"
  <1>1. phase' = [c \in Conn |->
                IF c \in {Without(C)[i].connection : i \in Lost(C, sock)} THEN "gone"
                ELSE IF c \notin C THEN phase[c]
                ELSE IF graceful /\ socket[c] = "open" THEN "closing" ELSE "gone"]
    BY DisconnectParts
  <1>2. \A j \in Lost(C, sock) : Without(C)[j].connection = records[j].connection
    BY HeirsAndLost, WithoutRecords
  <1>3. phase \in [Conn -> Phase]
    BY DEF RegistryInv, RegistryTypeOK
  <1>4. QED
    BY <1>1, <1>2, <1>3 DEF Phase

\* disconnect keeps the types and the links between connections and records, if the
\* keys of the connections it closes gracefully before they registered are revoked.
LEMMA DisconnectLinks ==
    ASSUME RegistryInv, NEW C \in SUBSET Conn,
           NEW sock \in [Conn -> {"open", "silent", "closed"}], NEW graceful \in BOOLEAN,
           Disconnect(C, sock, graceful), revoked \subseteq revoked',
           \A c \in C : graceful /\ inst[c] = None => keyOf[c] \in revoked'
    PROVE  RegistryTypeOK' /\ ConnectionInv'
  <1> DEFINE G == Gone(C)
             L == Lost(C, sock)
             H == Heirs(C, sock)
  <1>1. /\ socket' = sock /\ keyOf' = keyOf /\ inst' = inst
        /\ records \in [Instance -> Record] /\ inst \in [Conn -> Instance \cup {None}]
        /\ None \notin Conn
    BY DisconnectParts, RegistryAssumption DEF RegistryInv, RegistryTypeOK, ConnectionInv
  <1>2. /\ records' \in [Instance -> Record]
        /\ \A i \in Instance :
                /\ records'[i].sequence = records[i].sequence
                /\ i \in G \cup L => records'[i].state = "offline" /\ records'[i].connection = None
                /\ i \in H => /\ records'[i].state = "controllable"
                              /\ records'[i].connection = records[i].connection
                /\ i \notin G \cup L \cup H => records'[i] = records[i]
    BY DisconnectRecords
  <1>3. \A i \in H \cup L : /\ i \in Instance /\ i \notin G /\ records[i].state = "conflicting"
                            /\ records[i].connection # None /\ ~(i \in H /\ i \in L)
    BY HeirsAndLost
  <1>4. \A i \in Instance : i \in G <=> records[i].connection \in C
    BY DEF Gone
  <1> HIDE DEF G, L, H
  <1>5. ownership' \in [Directory -> Instance \cup {None}]
    <2>1. ASSUME NEW d \in Directory
          PROVE  ownership'[d] \in Instance \cup {None}
      <3>1. ownership[d] \in Instance \cup {None} /\ d \subseteq Instance
        BY RegistryAssumption DEF RegistryInv, RegistryTypeOK
      <3>2. QED
        BY <3>1, DisconnectOwners
    <2>2. DOMAIN ownership' = Directory /\ ownership' = [d \in Directory |-> ownership'[d]]
      BY DisconnectParts
    <2>3. QED
      BY <2>1, <2>2
  <1>6. ASSUME NEW c \in Conn, phase'[c] = "live", inst[c] # None
        PROVE  records'[inst[c]].connection = c
    <2>1. phase[c] = "live" /\ c \notin C /\ \A j \in L : records[j].connection # c
      BY <1>6, DisconnectPhases DEF L
    <2>2. inst[c] \in Instance /\ records[inst[c]].connection = c
      BY <1>1, <1>6, <2>1 DEF RegistryInv, RegistryTypeOK, Live
    <2>3. inst[c] \notin G \cup L
      BY <1>4, <2>1, <2>2
    <2>4. QED
      BY <1>2, <2>2, <2>3
  <1>7. ASSUME NEW i \in Instance
        PROVE  /\ records'[i].state \in Connected <=> records'[i].connection # None
               /\ records'[i].connection # None =>
                    /\ inst[records'[i].connection] = i
                    /\ phase'[records'[i].connection] = "live" \/ keyOf[records'[i].connection] \in revoked'
               /\ records'[i].state # "absent" => records[i].state # "absent"
    <2>1. records[i].state \in Connected <=> records[i].connection # None
      BY DEF RegistryInv, RegistryTypeOK
    <2>2. CASE i \in G \cup L
      <3>1. records[i].connection # None
        BY <1>1, <1>3, <1>4, <2>2
      <3>2. QED
        BY <1>2, <2>1, <2>2, <3>1 DEF Connected
    <2>3. CASE i \notin G \cup L
      <3>1. /\ records'[i].connection = records[i].connection
            /\ records'[i].state \in Connected <=> records[i].state \in Connected
            /\ records'[i].state = "absent" <=> records[i].state = "absent"
        BY <1>2, <1>3, <2>3 DEF Connected
      <3>2. ASSUME records[i].connection # None
            PROVE  /\ inst[records[i].connection] = i
                   /\ phase'[records[i].connection] = "live" \/ keyOf[records[i].connection] \in revoked'
        <4> DEFINE c == records[i].connection
        <4>1. c \in Conn
          BY <1>1, <3>2 DEF Record
        <4>2. inst[c] = i /\ (phase[c] = "live" \/ keyOf[c] \in revoked)
          BY <3>2, <4>1 DEF RegistryInv, RegistryTypeOK, Live
        <4>3. c \notin C
          BY <1>4, <2>3
        <4>4. \A j \in L : records[j].connection # c
          BY <1>3, <2>3, <4>2 DEF RegistryInv, RegistryTypeOK
        <4>5. phase[c] = "live" => phase'[c] = "live"
          BY <4>1, <4>3, <4>4, DisconnectPhases DEF L
        <4>6. QED
          BY <4>2, <4>5
      <3>3. QED
        BY <2>1, <3>1, <3>2
    <2>4. QED
      BY <2>2, <2>3
  <1>8. RegistryTypeOK'
    <2>1. \A i, j \in Instance :
            i # j /\ records'[i].state # "absent" /\ records'[j].state # "absent"
                => records'[i].sequence # records'[j].sequence
      BY <1>2, <1>7 DEF RegistryInv, RegistryTypeOK
    <2>2. \A i \in Instance : records'[i].connection # None => records'[i].connection \in Conn
      BY <1>2 DEF Record
    <2>3. QED
      BY <1>1, <1>2, <1>5, <1>6, <1>7, <2>1, <2>2, DisconnectPhases DEF RegistryTypeOK, Live
  <1>9. ConnectionInv'
    <2>1. ASSUME NEW c \in Conn
          PROVE  /\ phase'[c] \in {"fresh", "verified"} => inst[c] = None
                 /\ phase'[c] = "closing" /\ inst[c] = None => keyOf[c] \in revoked'
      <3>1. phase'[c] \in {phase[c], "closing", "gone"}
        BY DisconnectPhases
      <3>2. phase'[c] = "closing" => phase[c] = "closing" \/ (c \in C /\ graceful)
        BY DisconnectPhases
      <3>3. /\ phase[c] \in {"fresh", "verified"} => inst[c] = None
            /\ phase[c] = "closing" /\ inst[c] = None => keyOf[c] \in revoked
        BY DEF RegistryInv, ConnectionInv
      <3>4. phase'[c] \in {"fresh", "verified"} => inst[c] = None
        BY <3>1, <3>3
      <3>5. phase'[c] = "closing" /\ inst[c] = None => keyOf[c] \in revoked'
        BY <3>2, <3>3
      <3>6. QED
        BY <3>4, <3>5
    <2>2. keyOf \in [Conn -> Key \cup {None}]
      BY DEF RegistryInv, ConnectionInv
    <2>3. QED
      BY <1>1, <2>1, <2>2 DEF ConnectionInv
  <1>10. QED
    BY <1>8, <1>9

\* disconnect keeps one owner in every directory.
LEMMA DisconnectOwnership ==
    ASSUME RegistryInv, NEW C \in SUBSET Conn, NEW sock, NEW graceful, Disconnect(C, sock, graceful)
    PROVE  OneOwnerPerDirectory' /\ RecordInv'
  <1> DEFINE G == Gone(C)
             L == Lost(C, sock)
             H == Heirs(C, sock)
  <1>1. \A i \in Instance :
            /\ records'[i].sequence = records[i].sequence
            /\ i \in G \cup L => records'[i].state = "offline"
            /\ i \in H => records'[i].state = "controllable"
            /\ i \notin G \cup L \cup H => records'[i] = records[i]
    BY DisconnectRecords
  <1>2. \A i \in H \cup L : /\ i \in Instance /\ i \notin G /\ records[i].state = "conflicting"
                            /\ ~(i \in H /\ i \in L)
    BY HeirsAndLost
  <1> HIDE DEF G, L, H
  <1>3. ASSUME NEW i \in Instance
        PROVE  /\ records'[i].state = "controllable" <=> ownership'[DirectoryOf(i)] = i
               /\ records'[i].state = "conflicting" => ownership'[DirectoryOf(i)] \notin {None, i}
    <2> DEFINE d == DirectoryOf(i)
    <2>1. d \in Directory /\ i \in d
      BY InDirectory
    <2>2. /\ records[i].state = "controllable" <=> ownership[d] = i
          /\ records[i].state = "conflicting" => ownership[d] \notin {None, i}
          /\ i # None
      BY RegistryAssumption DEF RegistryInv, OneOwnerPerDirectory
    <2> HIDE DEF d
    <2>3. CASE ownership[d] \notin G
      <3>1. ownership'[d] = ownership[d] /\ i \notin H
        BY <2>1, <2>3, DisconnectOwners DEF G, H
      <3>2. i \notin L
        <4>1. ASSUME i \in L
              PROVE  DirectoryOf(i) \in Orphaned(C)
          BY <4>1, HeirsAndLost DEF L
        <4>2. QED
          BY <2>3, <4>1 DEF d, G, Orphaned
      <3>3. QED
        BY <1>1, <2>2, <2>3, <3>1, <3>2 DEF d
    <2>4. CASE ownership[d] \in G
      <3> DEFINE left == {j \in d : records[j].state = "conflicting" /\ j \notin G \cup L}
      <3>1. \/ ownership'[d] = None /\ d \cap H = {} /\ left = {}
            \/ ownership'[d] \in d /\ d \cap H = {ownership'[d]}
        BY <2>1, <2>4, DisconnectOwners DEF G, H, L
      <3>2. records[i].state = "controllable" => i \in G
        BY <2>2, <2>4
      <3>3. i \in d /\ records[i].state = "conflicting" /\ i \notin G \cup L => i \in left
        OBVIOUS
      <3>4. ownership'[d] = i <=> i \in H
        BY <2>1, <2>2, <3>1
      <3>5. records'[i].state = "controllable" <=> i \in H
        BY <1>1, <1>2, <3>2
      <3>6. records'[i].state = "conflicting" => ownership'[d] # None
        <4>1. records'[i].state = "conflicting" => i \notin G \cup L \cup H /\ records'[i] = records[i]
          BY <1>1
        <4>2. d \subseteq Instance /\ None \notin Instance
          BY <2>1, RegistryAssumption
        <4>3. QED
          BY <2>1, <3>1, <3>3, <4>1, <4>2
      <3>7. QED
        BY <1>1, <3>4, <3>5, <3>6 DEF d
    <2>5. QED
      BY <2>3, <2>4
  <1>4. RecordInv'
    <2>1. nextSequence' = nextSequence /\ nextSequence \in Nat
      BY DisconnectParts DEF RegistryInv, RecordInv
    <2>2. ASSUME NEW i \in Instance
          PROVE  /\ records'[i].state # "absent" => records'[i].sequence < nextSequence'
                 /\ records'[i].state \in {"controllable", "conflicting"} => i \notin Incompatible
      <3>1. i \in G => records[i].state # "absent"
        BY RegistryAssumption DEF G, Gone, RegistryInv, RegistryTypeOK, Connected
      <3>2. QED
        BY <1>1, <1>2, <2>1, <3>1 DEF RegistryInv, RecordInv
    <2>3. ASSUME NEW d \in Directory
          PROVE  ownership'[d] \in d \cup {None}
      BY DisconnectOwners DEF RegistryInv, RecordInv
    <2>4. QED
      BY <2>1, <2>2, <2>3 DEF RecordInv
  <1>5. QED
    BY <1>3, <1>4 DEF OneOwnerPerDirectory

\* disconnect leaves the published presence current, as sockets only close.
LEMMA DisconnectPresence ==
    ASSUME RegistryInv, NEW C \in SUBSET Conn, NEW sock, NEW graceful, Disconnect(C, sock, graceful),
           \A c \in Conn : socket[c] = "closed" => sock[c] = "closed"
    PROVE  PresenceCurrent'
  <1>1. socket' = sock /\ published' = PublishAfter(Gone(C), records', sock)
    BY DisconnectParts
  <1>2. CASE Gone(C) = {}
    <2>1. Lost(C, sock) = {} /\ Heirs(C, sock) = {}
      BY <1>2, HeirsAndLost DEF Orphaned
    <2>2. \A i \in Instance : records'[i] = records[i]
      BY <1>2, <2>1, DisconnectRecords
    <2>3. records \in [Instance -> Record] /\ records' \in [Instance -> Record]
      BY DisconnectRecords DEF RegistryInv, RegistryTypeOK
    <2>4. records' = records
      BY <2>2, <2>3
    <2>5. \A i \in Instance : records[i].state \in Connected => records[i].connection \in Conn
      BY <2>3 DEF Record, RegistryInv, RegistryTypeOK
    <2>6. Presence(records, sock) \subseteq Presence(records, socket)
      BY <2>5 DEF Presence
    <2>7. published' = published
      BY <1>1, <1>2 DEF PublishAfter
    <2>8. QED
      BY <1>1, <2>4, <2>6, <2>7 DEF RegistryInv, PresenceCurrent
  <1>3. CASE Gone(C) # {}
    <2>1. published' = Presence(records', socket')
      BY <1>1, <1>3 DEF PublishAfter
    <2>2. QED
      BY <2>1 DEF PresenceCurrent, Presence
  <1>4. QED
    BY <1>2, <1>3

\* So disconnect keeps the invariant.
LEMMA DisconnectKeeps ==
    ASSUME RegistryInv, NEW C \in SUBSET Conn,
           NEW sock \in [Conn -> {"open", "silent", "closed"}], NEW graceful \in BOOLEAN,
           Disconnect(C, sock, graceful), revoked \subseteq revoked',
           \A c \in Conn : socket[c] = "closed" => sock[c] = "closed",
           \A c \in C : graceful /\ inst[c] = None => keyOf[c] \in revoked'
    PROVE  RegistryInv'
  BY DisconnectLinks, DisconnectOwnership, DisconnectPresence DEF RegistryInv

-----------------------------------------------------------------------------
(* The other operations *)

\* What a registration makes of the records.
LEMMA EnterRecords ==
    ASSUME RegistryInv, NEW c \in Conn, NEW i \in Instance, Enter(c, i)
    PROVE  /\ records' \in [Instance -> Record]
           /\ records'[i].state = StateFor(i) /\ records'[i].connection = c
           /\ records'[i].sequence = IF records[i].state # "absent" THEN records[i].sequence ELSE nextSequence
           /\ \A j \in Instance \ {i} :
                \/ records'[j] = records[j]
                \/ /\ records'[j].state = "absent" /\ records'[j].connection = None
                   /\ records[j].state = "offline"
           /\ StateFor(i) \in Connected
  <1> DEFINE new == [state |-> StateFor(i), connection |-> c,
                     sequence |-> IF records[i].state # "absent" THEN records[i].sequence ELSE nextSequence]
  <1>1. records \in [Instance -> Record] /\ nextSequence \in Nat
    BY DEF RegistryInv, RegistryTypeOK, RecordInv
  <1>2. StateFor(i) \in Connected
    BY DEF StateFor, Connected
  <1>3. /\ Absent \in Record /\ Absent.state = "absent" /\ Absent.connection = None
        /\ Pruned(i)[i] = records[i]
        /\ \A j \in Instance : Pruned(i)[j] = records[j]
                             \/ (Pruned(i)[j] = Absent /\ records[j].state = "offline")
    BY DEF Absent, Record, Pruned
  <1>4. Pruned(i) \in [Instance -> Record]
    BY <1>1, <1>3 DEF Pruned
  <1>5. records' = [Pruned(i) EXCEPT ![i] = new]
    BY <1>3, <1>4 DEF Enter
  <1>6. new \in Record
    BY <1>1, <1>2 DEF Record
  <1>7. new.state = StateFor(i) /\ new.connection = c
        /\ new.sequence = IF records[i].state # "absent" THEN records[i].sequence ELSE nextSequence
    OBVIOUS
  <1> HIDE DEF new
  <1>8. records'[i] = new /\ \A j \in Instance \ {i} : records'[j] = Pruned(i)[j]
    BY <1>4, <1>5
  <1>9. records' \in [Instance -> Record]
    BY <1>4, <1>5, <1>6
  <1>10. QED
    BY <1>2, <1>3, <1>7, <1>8, <1>9

\* A registration keeps the invariant, of a connection that is and stays live, or of
\* one that the revocation of its key has closed.
LEMMA EnterKeeps ==
    ASSUME RegistryInv, NEW c \in Conn, NEW i \in Instance, Enter(c, i), inst[c] = None,
           phase[c] \notin {"fresh", "verified"},
           records[i].connection \notin Live,
           \/ UNCHANGED phase /\ phase[c] = "live"
           \/ phase' = [phase EXCEPT ![c] = "gone"] /\ keyOf[c] \in revoked,
           UNCHANGED <<keyOf, socket, revoked>>
    PROVE  RegistryInv'
  <1>1. /\ records' \in [Instance -> Record]
        /\ records'[i].state = StateFor(i) /\ records'[i].connection = c
        /\ records'[i].sequence = IF records[i].state # "absent" THEN records[i].sequence ELSE nextSequence
        /\ \A j \in Instance \ {i} :
             \/ records'[j] = records[j]
             \/ /\ records'[j].state = "absent" /\ records'[j].connection = None
                /\ records[j].state = "offline"
        /\ StateFor(i) \in Connected
    BY EnterRecords
  <1>2. /\ phase' \in [Conn -> Phase]
        /\ phase'[c] = "live" \/ keyOf[c] \in revoked
        /\ phase'[c] \in {"live", "gone"}
        /\ \A e \in Conn \ {c} : phase'[e] = phase[e]
    BY DEF RegistryInv, RegistryTypeOK, Phase
  <1>3. /\ inst \in [Conn -> Instance \cup {None}] /\ inst' = [inst EXCEPT ![c] = i]
        /\ records \in [Instance -> Record] /\ nextSequence \in Nat
        /\ ownership \in [Directory -> Instance \cup {None}]
        /\ None \notin Conn /\ None \notin Instance
    BY RegistryAssumption DEF RegistryInv, RegistryTypeOK, ConnectionInv, RecordInv, Enter
  <1>4. inst' \in [Conn -> Instance \cup {None}] /\ inst'[c] = i
        /\ \A e \in Conn \ {c} : inst'[e] = inst[e]
    BY <1>3
  <1> DEFINE d == DirectoryOf(i)
  <1>5. /\ d \in Directory /\ i \in d
        /\ \A j \in Instance : DirectoryOf(j) \in Directory
    BY InDirectory
  <1>6. /\ StateFor(i) = "controllable" <=> i \notin Incompatible /\ ownership[d] \in {None, i}
        /\ StateFor(i) = "conflicting" <=> i \notin Incompatible /\ ownership[d] \notin {None, i}
    BY DEF StateFor
  <1>7. ownership' = IF StateFor(i) = "controllable" THEN [ownership EXCEPT ![d] = i] ELSE ownership
    BY DEF Enter
  <1> HIDE DEF d
  <1>8. ownership' \in [Directory -> Instance \cup {None}]
    BY <1>3, <1>7
  <1>9. /\ ownership'[d] = IF StateFor(i) = "controllable" THEN i ELSE ownership[d]
        /\ \A e \in Directory \ {d} : ownership'[e] = ownership[e]
    BY <1>3, <1>5, <1>7
  <1>10. ASSUME NEW j \in Instance
         PROVE  /\ records[j].state \in Connected <=> records[j].connection # None
                /\ records[j].connection # None => records[j].connection \in Conn
                /\ records[j].connection # None => inst[records[j].connection] = j
                /\ records[j].connection # None =>
                        \/ phase[records[j].connection] = "live"
                        \/ keyOf[records[j].connection] \in revoked
    <2>1. records[j] \in Record
      BY <1>3
    <2>2. records[j].connection # None => records[j].connection \in Conn
      BY <2>1 DEF Record
    <2>3. QED
      BY <2>2 DEF RegistryInv, RegistryTypeOK, Live
  <1>11. nextSequence' = IF records[i].state # "absent" THEN nextSequence ELSE nextSequence + 1
    BY DEF Enter
  <1>12. RegistryTypeOK'
    <2>1. ASSUME NEW e \in Conn, phase'[e] = "live", inst'[e] # None
          PROVE  records'[inst'[e]].connection = e
      <3>1. CASE e = c
        BY <1>1, <1>4, <3>1
      <3>2. CASE e # c
        <4>1. phase[e] = "live" /\ inst[e] # None /\ inst[e] \in Instance /\ inst'[e] = inst[e]
          BY <1>2, <1>3, <1>4, <2>1, <3>2
        <4>2. records[inst[e]].connection = e
          BY <4>1 DEF RegistryInv, RegistryTypeOK, Live
        <4>3. inst[e] # i
          BY <4>1, <4>2 DEF Live
        <4>4. records[inst[e]].state \in Connected
          BY <1>3, <1>10, <4>1, <4>2
        <4>5. records'[inst[e]] = records[inst[e]]
          BY <1>1, <4>1, <4>3, <4>4 DEF Connected
        <4>6. QED
          BY <4>1, <4>2, <4>5
      <3>3. QED
        BY <3>1, <3>2
    <2>2. ASSUME NEW j \in Instance
          PROVE  /\ records'[j].state \in Connected <=> records'[j].connection # None
                 /\ records'[j].connection # None =>
                        /\ inst'[records'[j].connection] = j
                        /\ \/ phase'[records'[j].connection] = "live"
                           \/ keyOf[records'[j].connection] \in revoked
      <3>1. CASE j = i
        BY <1>1, <1>2, <1>3, <1>4, <3>1
      <3>2. CASE j # i /\ records'[j] = records[j]
        <4>1. records[j].connection # None => records[j].connection # c
          BY <1>3, <1>10
        <4>2. QED
          BY <1>2, <1>4, <1>10, <3>2, <4>1
      <3>3. CASE records'[j].state = "absent" /\ records'[j].connection = None
        BY <3>3 DEF Connected
      <3>4. QED
        BY <1>1, <3>1, <3>2, <3>3
    <2>3. \A j, k \in Instance :
            j # k /\ records'[j].state # "absent" /\ records'[k].state # "absent"
                => records'[j].sequence # records'[k].sequence
      <3>1. \A j \in Instance \ {i} : records'[j].state # "absent" => records'[j] = records[j]
        BY <1>1
      <3>2. \A j \in Instance : records[j].state # "absent" => records[j].sequence < nextSequence
        BY DEF RegistryInv, RecordInv
      <3>3. \A j, k \in Instance :
              j # k /\ records[j].state # "absent" /\ records[k].state # "absent"
                => records[j].sequence # records[k].sequence
        BY DEF RegistryInv, RegistryTypeOK
      <3>4. QED
        BY <1>1, <1>3, <3>1, <3>2, <3>3
    <2>4. socket' \in [Conn -> {"open", "silent", "closed"}]
      BY DEF RegistryInv, RegistryTypeOK
    <2>5. keyOf' = keyOf /\ revoked' = revoked
      OBVIOUS
    <2>6. \A j \in Instance : records'[j].connection # None => records'[j].connection \in Conn
      BY <1>1 DEF Record
    <2>7. QED
      BY <1>1, <1>2, <1>8, <2>1, <2>2, <2>3, <2>4, <2>5, <2>6 DEF RegistryTypeOK, Live
  <1>13. ConnectionInv'
    BY <1>2, <1>4 DEF RegistryInv, ConnectionInv
  <1>14. RecordInv'
    <2>1. ASSUME NEW j \in Instance
          PROVE  /\ records'[j].state # "absent" => records'[j].sequence < nextSequence'
                 /\ records'[j].state \in {"controllable", "conflicting"} => j \notin Incompatible
      <3>1. /\ records[j].state # "absent" => records[j].sequence < nextSequence
            /\ records[j].state \in {"controllable", "conflicting"} => j \notin Incompatible
            /\ records[j].sequence \in Nat
        BY <1>3 DEF RegistryInv, RecordInv, Record
      <3>2. QED
        BY <1>1, <1>3, <1>6, <1>11, <3>1
    <2>2. \A e \in Directory : ownership'[e] \in e \cup {None}
      BY <1>5, <1>9 DEF RegistryInv, RecordInv
    <2>3. QED
      BY <1>3, <1>11, <2>1, <2>2 DEF RecordInv
  <1>15. OneOwnerPerDirectory'
    <2>1. ASSUME NEW j \in Instance
          PROVE  /\ records'[j].state = "controllable" <=> ownership'[DirectoryOf(j)] = j
                 /\ records'[j].state = "conflicting" => ownership'[DirectoryOf(j)] \notin {None, j}
      <3>1. /\ records[j].state = "controllable" <=> ownership[DirectoryOf(j)] = j
            /\ records[j].state = "conflicting" => ownership[DirectoryOf(j)] \notin {None, j}
        BY DEF RegistryInv, OneOwnerPerDirectory
      <3>2. CASE j = i
        <4>1. ownership[d] = i => i \notin Incompatible
          BY <3>1, <3>2 DEF d, RegistryInv, RecordInv
        <4>2. QED
          BY <1>1, <1>6, <1>9, <3>2, <4>1 DEF d
      <3>3. CASE j # i
        <4>1. \/ records'[j] = records[j]
              \/ records'[j].state = "absent" /\ records[j].state = "offline"
          BY <1>1, <3>3
        <4>2. ownership'[DirectoryOf(j)] = ownership[DirectoryOf(j)]
              \/ (ownership[DirectoryOf(j)] \in {None, i} /\ ownership'[DirectoryOf(j)] = i)
          BY <1>5, <1>6, <1>9
        <4>3. QED
          BY <1>3, <3>1, <3>3, <4>1, <4>2
      <3>4. QED
        BY <3>2, <3>3
    <2>2. QED
      BY <2>1 DEF OneOwnerPerDirectory
  <1>16. PresenceCurrent'
    <2>1. published' = Presence(records', socket')
      BY DEF Enter
    <2>2. QED
      BY <2>1 DEF PresenceCurrent, Presence
  <1>17. QED
    BY <1>12, <1>13, <1>14, <1>15, <1>16 DEF RegistryInv

\* The end of the process leaves nothing to be wrong about.
LEMMA ProcessEndsKeeps ==
    ASSUME RegistryInv, ProcessEnds
    PROVE  RegistryInv'
  <1>1. Absent \in Record /\ Absent.state = "absent" /\ Absent.connection = None
    BY DEF Absent, Record
  <1>2. /\ records' = [i \in Instance |-> Absent] /\ ownership' = [d \in Directory |-> None]
        /\ published' = {} /\ nextSequence' = 0
        /\ keyOf' = keyOf /\ inst' = inst /\ revoked' = revoked
        /\ phase' = [c \in Conn |-> IF phase[c] = "fresh" THEN "fresh" ELSE "gone"]
        /\ socket' = [c \in Conn |-> IF phase[c] = "fresh" THEN socket[c] ELSE "closed"]
    BY DEF ProcessEnds
  <1>3. \A i \in Instance : records'[i].state = "absent" /\ records'[i].connection = None
    BY <1>1, <1>2
  <1>4. RegistryTypeOK'
    <2>1. records' \in [Instance -> Record]
      BY <1>1, <1>2
    <2>2. /\ phase' \in [Conn -> Phase] /\ socket' \in [Conn -> {"open", "silent", "closed"}]
          /\ Live' = {}
      BY <1>2 DEF RegistryInv, RegistryTypeOK, Phase, Live
    <2>3. QED
      BY <1>2, <1>3, <2>1, <2>2 DEF RegistryTypeOK, Connected
  <1>5. ConnectionInv'
    BY <1>2 DEF RegistryInv, ConnectionInv
  <1>6. RecordInv'
    BY <1>2, <1>3 DEF RecordInv
  <1>7. OneOwnerPerDirectory'
    BY <1>2, <1>3, InDirectory, RegistryAssumption DEF OneOwnerPerDirectory
  <1>8. PresenceCurrent'
    BY <1>2, <1>3 DEF PresenceCurrent, Presence, Connected
  <1>9. QED
    BY <1>4, <1>5, <1>6, <1>7, <1>8 DEF RegistryInv

\* A connection is verified, added or heard of, and its socket may fail: no record
\* is touched.
LEMMA ConnectionStepKeeps ==
    ASSUME RegistryInv, NEW c \in Conn,
           \/ \E k \in Key : Verify(c, k)
           \/ Add(c) \/ HeartbeatPings(c) \/ MarkAlive(c)
           \/ \E how \in {"silent", "closed"} : SocketFails(c, how)
    PROVE  RegistryInv'
  <1>1. /\ UNCHANGED <<inst, records, ownership, nextSequence, revoked, published>>
        /\ phase \in [Conn -> Phase] /\ socket \in [Conn -> {"open", "silent", "closed"}]
        /\ keyOf \in [Conn -> Key \cup {None}] /\ inst \in [Conn -> Instance \cup {None}]
        /\ records \in [Instance -> Record] /\ None \notin Conn
    BY RegistryAssumption DEF Verify, Add, HeartbeatPings, MarkAlive, SocketFails,
        RegistryInv, RegistryTypeOK, ConnectionInv
  <1>2. /\ phase' \in [Conn -> Phase]
        /\ \A e \in Conn : \/ phase'[e] = phase[e]
                           \/ phase[e] = "fresh" /\ phase'[e] = "verified"
                           \/ phase[e] = "verified" /\ phase'[e] = "live"
    <2>1. CASE \E k \in Key : Verify(c, k)
      BY <1>1, <2>1 DEF Verify, Phase
    <2>2. CASE Add(c)
      BY <1>1, <2>2 DEF Add, Phase
    <2>3. CASE UNCHANGED phase
      BY <1>1, <2>3
    <2>4. QED
      BY <2>1, <2>2, <2>3 DEF HeartbeatPings, MarkAlive, SocketFails
  <1>3. /\ keyOf' \in [Conn -> Key \cup {None}]
        /\ \A e \in Conn : phase[e] # "fresh" => keyOf'[e] = keyOf[e]
    BY <1>1 DEF Verify, Add, HeartbeatPings, MarkAlive, SocketFails
  <1>4. /\ socket' \in [Conn -> {"open", "silent", "closed"}]
        /\ \A e \in Conn : socket[e] = "closed" => socket'[e] = "closed"
    BY <1>1 DEF Verify, Add, HeartbeatPings, MarkAlive, SocketFails
  <1>5. \A e \in Conn : phase[e] \in {"fresh", "verified"} => inst[e] = None
    BY DEF RegistryInv, ConnectionInv
  <1>6. RegistryTypeOK'
    <2>1. \A e \in Conn : phase'[e] = "live" /\ inst[e] # None => records[inst[e]].connection = e
      BY <1>2, <1>5 DEF RegistryInv, RegistryTypeOK, Live
    <2>2. ASSUME NEW i \in Instance, records[i].connection # None
          PROVE  /\ inst[records[i].connection] = i
                 /\ \/ phase'[records[i].connection] = "live"
                    \/ keyOf'[records[i].connection] \in revoked
                 /\ records[i].connection \in Conn
      <3> DEFINE e == records[i].connection
      <3>1. e \in Conn
        BY <1>1, <2>2 DEF Record
      <3>2. inst[e] = i /\ (phase[e] = "live" \/ keyOf[e] \in revoked)
        BY <2>2 DEF RegistryInv, RegistryTypeOK, Live
      <3>3. phase[e] # "fresh"
        BY <1>5, <3>1, <3>2, RegistryAssumption
      <3>4. QED
        BY <1>2, <1>3, <3>1, <3>2, <3>3
    <2>3. QED
      BY <1>1, <1>2, <1>4, <2>1, <2>2 DEF RegistryInv, RegistryTypeOK, Live
  <1>7. ConnectionInv'
    BY <1>1, <1>2, <1>3 DEF RegistryInv, ConnectionInv
  <1>8. RecordInv' /\ OneOwnerPerDirectory'
    BY <1>1 DEF RegistryInv, RecordInv, OneOwnerPerDirectory
  <1>9. PresenceCurrent'
    <2>1. \A i \in Instance : records[i].state \in Connected => records[i].connection \in Conn
      BY <1>1 DEF Record, RegistryInv, RegistryTypeOK
    <2>2. Presence(records, socket') \subseteq Presence(records, socket)
      BY <1>4, <2>1 DEF Presence
    <2>3. QED
      BY <1>1, <2>2 DEF RegistryInv, PresenceCurrent
  <1>10. QED
    BY <1>6, <1>7, <1>8, <1>9 DEF RegistryInv

\* An offline record is forgotten.
LEMMA ForgetKeeps ==
    ASSUME RegistryInv, NEW i \in Instance, ForgetOffline(i)
    PROVE  RegistryInv'
  <1>1. /\ records \in [Instance -> Record] /\ records' = [records EXCEPT ![i] = Absent]
        /\ records[i].state = "offline" /\ published' = Presence(records', socket')
        /\ UNCHANGED <<phase, keyOf, inst, socket, ownership, nextSequence, revoked>>
    BY DEF RegistryInv, RegistryTypeOK, ForgetOffline
  <1>2. Absent \in Record /\ Absent.state = "absent" /\ Absent.connection = None
    BY DEF Absent, Record
  <1>3. /\ records' \in [Instance -> Record]
        /\ records'[i].state = "absent" /\ records'[i].connection = None
        /\ \A j \in Instance \ {i} : records'[j] = records[j]
    BY <1>1, <1>2
  <1>4. records[i].connection = None
    BY DEF ForgetOffline
  <1>5. RegistryTypeOK'
    <2>1. ASSUME NEW c \in Conn, phase[c] = "live", inst[c] # None
          PROVE  records'[inst[c]].connection = c
      <3>1. records[inst[c]].connection = c /\ inst[c] \in Instance /\ c # None
        BY <2>1, RegistryAssumption DEF RegistryInv, RegistryTypeOK, ConnectionInv, Live
      <3>2. QED
        BY <1>3, <1>4, <3>1
    <2>2. ASSUME NEW j \in Instance
          PROVE  /\ records'[j].state \in Connected <=> records'[j].connection # None
                 /\ records'[j].connection # None =>
                        /\ inst[records'[j].connection] = j
                        /\ records'[j].connection \in Live \/ keyOf[records'[j].connection] \in revoked
                 /\ records'[j].state # "absent" => records'[j] = records[j]
      BY <1>3 DEF RegistryInv, RegistryTypeOK, Connected
    <2>3. QED
      BY <1>1, <1>3, <2>1, <2>2 DEF RegistryInv, RegistryTypeOK, Live
  <1>6. ConnectionInv' /\ RecordInv'
    BY <1>1, <1>3 DEF RegistryInv, ConnectionInv, RecordInv
  <1>7. OneOwnerPerDirectory'
    BY <1>1, <1>3 DEF RegistryInv, OneOwnerPerDirectory
  <1>8. PresenceCurrent'
    BY <1>1 DEF PresenceCurrent, Presence
  <1>9. QED
    BY <1>5, <1>6, <1>7, <1>8 DEF RegistryInv

-----------------------------------------------------------------------------
(* The theorems *)

\* One disconnect, of the kind that DisconnectKeeps is about.
Disconnection ==
    \E C \in SUBSET Conn, sock \in [Conn -> {"open", "silent", "closed"}], graceful \in BOOLEAN :
        /\ Disconnect(C, sock, graceful)
        /\ revoked \subseteq revoked'
        /\ \A c \in Conn : socket[c] = "closed" => sock[c] = "closed"
        /\ \A c \in C : graceful /\ inst[c] = None => keyOf[c] \in revoked'

\* The steps that disconnect connections are one disconnect each.
LEMMA Disconnections ==
    ASSUME RegistryInv,
           \/ \E c \in Conn : BadFrame(c) \/ CloseEvent(c) \/ HeartbeatDrops(c)
           \/ \E k \in Key : DeleteKey(k)
    PROVE  Disconnection
  <1>1. socket \in [Conn -> {"open", "silent", "closed"}]
    BY DEF RegistryInv, RegistryTypeOK
  <1>2. ASSUME NEW c \in Conn, BadFrame(c)
        PROVE  Disconnection
    <2> DEFINE sock == [socket EXCEPT ![c] = "closed"]
    <2>1. sock \in [Conn -> {"open", "silent", "closed"}] /\ \A e \in Conn : socket[e] = "closed" => sock[e] = "closed"
      BY <1>1
    <2>2. Disconnect({c}, sock, TRUE) /\ revoked' = revoked /\ inst[c] # None
      BY <1>2 DEF BadFrame
    <2> HIDE DEF sock
    <2>3. QED
      <3>1. {c} \in SUBSET Conn /\ TRUE \in BOOLEAN /\ \A e \in {c} : inst[e] # None
        BY <2>2
      <3>2. QED
        BY <2>1, <2>2, <3>1, Zenon DEF Disconnection
  <1>3. ASSUME NEW c \in Conn, CloseEvent(c)
        PROVE  Disconnection
    <2>1. Disconnect({c}, socket, FALSE) /\ revoked' = revoked
      BY <1>3 DEF CloseEvent
    <2>2. QED
      BY <1>1, <2>1 DEF Disconnection
  <1>4. ASSUME NEW c \in Conn, HeartbeatDrops(c)
        PROVE  Disconnection
    <2> DEFINE sock == [socket EXCEPT ![c] = "closed"]
    <2>1. sock \in [Conn -> {"open", "silent", "closed"}] /\ \A e \in Conn : socket[e] = "closed" => sock[e] = "closed"
      BY <1>1
    <2>2. Disconnect({c}, sock, FALSE) /\ revoked' = revoked
      BY <1>4 DEF HeartbeatDrops
    <2> HIDE DEF sock
    <2>3. QED
      BY <2>1, <2>2 DEF Disconnection
  <1>5. ASSUME NEW k \in Key, DeleteKey(k)
        PROVE  Disconnection
    <2> DEFINE C == {e \in Live : keyOf[e] = k}
               sock == [e \in Conn |-> IF e \in C THEN "closed" ELSE socket[e]]
    <2>1. C \in SUBSET Conn /\ \A e \in C : keyOf[e] = k
      BY DEF Live
    <2>2. sock \in [Conn -> {"open", "silent", "closed"}] /\ \A e \in Conn : socket[e] = "closed" => sock[e] = "closed"
      BY <1>1
    <2>3. Disconnect(C, sock, TRUE) /\ revoked' = revoked \cup {k}
      BY <1>5 DEF DeleteKey, Revoke, RevokeKey
    <2> HIDE DEF C, sock
    <2>4. QED
      BY <2>1, <2>2, <2>3 DEF Disconnection
  <1>6. QED
    BY <1>2, <1>3, <1>4, <1>5

\* The registrations, as Enter.
LEMMA RegistrationKeeps ==
    ASSUME RegistryInv, NEW c \in Conn, NEW i \in Instance, Register(c, i) \/ RegisterLate(c, i)
    PROVE  RegistryInv'
  <1>1. CASE Register(c, i)
    <2>1. /\ Enter(c, i) /\ inst[c] = None /\ phase[c] = "live" /\ records[i].connection \notin Live
          /\ UNCHANGED <<phase, keyOf, socket, revoked>>
      BY <1>1 DEF Register
    <2>2. QED
      BY <2>1, EnterKeeps
  <1>2. CASE RegisterLate(c, i)
    <2>1. /\ Enter(c, i) /\ inst[c] = None /\ phase[c] = "closing" /\ records[i].connection \notin Live
          /\ phase' = [phase EXCEPT ![c] = "gone"] /\ UNCHANGED <<keyOf, socket, revoked>>
      BY <1>2 DEF RegisterLate
    <2>2. keyOf[c] \in revoked
      BY <2>1 DEF RegistryInv, ConnectionInv
    <2>3. QED
      BY <2>1, <2>2, EnterKeeps
  <1>3. QED
    BY <1>1, <1>2

\* The invariant holds of the initial state and is kept by every step.
THEOREM RegistryInductive ==
    /\ RegistryInit => RegistryInv
    /\ RegistryInv /\ [RegistryNext]_rvars => RegistryInv'
  <1>1. ASSUME RegistryInit
        PROVE  RegistryInv
    <2>1. Absent \in Record /\ Absent.state = "absent" /\ Absent.connection = None
      BY DEF Absent, Record
    <2>2. \A i \in Instance : records[i].state = "absent" /\ records[i].connection = None
      BY <1>1, <2>1 DEF RegistryInit
    <2>3. RegistryTypeOK
      BY <1>1, <2>1, <2>2 DEF RegistryInit, RegistryTypeOK, Phase, Live, Connected
    <2>4. ConnectionInv /\ RecordInv
      BY <1>1, <2>2 DEF RegistryInit, ConnectionInv, RecordInv
    <2>5. OneOwnerPerDirectory
      BY <1>1, <2>2, InDirectory, RegistryAssumption DEF RegistryInit, OneOwnerPerDirectory
    <2>6. PresenceCurrent
      BY <1>1, <2>2 DEF RegistryInit, PresenceCurrent, Presence, Connected
    <2>7. QED
      BY <2>3, <2>4, <2>5, <2>6 DEF RegistryInv
  <1>2. ASSUME RegistryInv, RegistryNext
        PROVE  RegistryInv'
    <2>1. CASE \/ \E c \in Conn : BadFrame(c) \/ CloseEvent(c) \/ HeartbeatDrops(c)
               \/ \E k \in Key : DeleteKey(k)
      BY <1>2, <2>1, Disconnections, DisconnectKeeps DEF Disconnection
    <2>2. CASE \E c \in Conn, i \in Instance : Register(c, i) \/ RegisterLate(c, i)
      BY <1>2, <2>2, RegistrationKeeps
    <2>3. CASE ProcessEnds
      BY <1>2, <2>3, ProcessEndsKeeps
    <2>4. CASE \E c \in Conn : \/ \E k \in Key : Verify(c, k)
                              \/ Add(c) \/ HeartbeatPings(c) \/ MarkAlive(c)
                              \/ \E how \in {"silent", "closed"} : SocketFails(c, how)
      BY <1>2, <2>4, ConnectionStepKeeps
    <2>5. CASE \E i \in Instance : ForgetOffline(i)
      BY <1>2, <2>5, ForgetKeeps
    <2>6. QED
      BY <1>2, <2>1, <2>2, <2>3, <2>4, <2>5 DEF RegistryNext, RegisterFrame, RegisterReplacing, Restart
  <1>3. ASSUME RegistryInv, UNCHANGED rvars
        PROVE  RegistryInv'
    BY <1>3 DEF rvars, RegistryInv, RegistryTypeOK, ConnectionInv, RecordInv, OneOwnerPerDirectory,
        PresenceCurrent, Presence, Live
  <1>4. QED
    BY <1>1, <1>2, <1>3

\* RegistrySpec always satisfies it.
THEOREM RegistryInvariant == RegistrySpec => []RegistryInv
  BY RegistryInductive, PTL DEF RegistrySpec

\* Types, and the links between connections and records, whatever connections are
\* replaced, fail, are revoked or answer late.
THEOREM RegistryTypes == RegistrySpec => []RegistryTypeOK
  <1>1. RegistryInv => RegistryTypeOK
    BY DEF RegistryInv
  <1>2. QED
    BY <1>1, RegistryInvariant, PTL

\* One owner per directory, and nobody waits in a directory without one: promote
\* runs through any number of dead contenders and finds the heir.
THEOREM OneOwner == RegistrySpec => []OneOwnerPerDirectory
  <1>1. RegistryInv => OneOwnerPerDirectory
    BY DEF RegistryInv
  <1>2. QED
    BY <1>1, RegistryInvariant, PTL

\* The presence last published is the current one: no path of register, disconnect
\* or forget leaves it stale.
THEOREM PresenceStaysCurrent == RegistrySpec => []PresenceCurrent
  <1>1. RegistryInv => PresenceCurrent
    BY DEF RegistryInv
  <1>2. QED
    BY <1>1, RegistryInvariant, PTL

\* What a change of a directory's owner must respect, in one step.
PassesOn(d) ==
    ownership[d] # None /\ ownership'[d] # ownership[d] =>
        /\ records'[ownership[d]].connection = None
        /\ \A i, j \in d :
            (/\ ownership'[d] = i
             /\ records[j].state = "conflicting" /\ records'[j].state = "conflicting")
                => records[i].sequence < records[j].sequence

\* disconnect passes a directory on to the first contender that is left.
LEMMA DisconnectPasses ==
    ASSUME RegistryInv, NEW C \in SUBSET Conn, NEW sock, NEW graceful, Disconnect(C, sock, graceful),
           NEW d \in Directory
    PROVE  PassesOn(d)
  <1> SUFFICES ASSUME ownership[d] # None, ownership'[d] # ownership[d]
               PROVE  /\ records'[ownership[d]].connection = None
                      /\ \A j \in d :
                            (/\ ownership'[d] \in d
                             /\ records[j].state = "conflicting" /\ records'[j].state = "conflicting")
                                => records[ownership'[d]].sequence < records[j].sequence
    BY DEF PassesOn
  <1>1. ownership[d] \in Gone(C)
    BY DisconnectOwners
  <1>2. ownership[d] \in Instance
    BY <1>1 DEF Gone
  <1>3. records'[ownership[d]].connection = None
    BY <1>1, <1>2, DisconnectRecords
  <1>4. ASSUME NEW j \in d, ownership'[d] \in d,
               records[j].state = "conflicting", records'[j].state = "conflicting"
        PROVE  records[ownership'[d]].sequence < records[j].sequence
    <2>1. j \in Instance /\ None \notin d
      BY RegistryAssumption
    <2>2. j \notin Gone(C) \cup Lost(C, sock) \cup Heirs(C, sock)
      BY <1>4, <2>1, DisconnectRecords
    <2>3. /\ d \cap Heirs(C, sock) = {ownership'[d]}
          /\ \A k \in d \ {ownership'[d]} :
                records[k].state = "conflicting" /\ k \notin Gone(C) \cup Lost(C, sock)
                    => records[ownership'[d]].sequence < records[k].sequence
      BY <1>1, <1>4, <2>1, DisconnectOwners
    <2>4. j # ownership'[d]
      BY <2>2, <2>3
    <2>5. QED
      BY <1>4, <2>2, <2>3, <2>4
  <1>5. QED
    BY <1>3, <1>4

\* No other step takes a directory from its owner, except the end of the process.
LEMMA OthersPass ==
    ASSUME RegistryInv, RegistryNext, ~Disconnection, NEW d \in Directory
    PROVE  PassesOn(d)
  <1>1. d \subseteq Instance /\ None \notin Instance
    BY RegistryAssumption
  <1>2. CASE UNCHANGED ownership
    BY <1>2 DEF PassesOn
  <1>3. CASE ProcessEnds
    <2>1. ownership'[d] = None
      BY <1>3 DEF ProcessEnds
    <2>2. ownership[d] # None => ownership[d] \in Instance
      BY DEF RegistryInv, RegistryTypeOK
    <2>3. ownership[d] # None => records'[ownership[d]].connection = None
      BY <1>3, <2>2 DEF ProcessEnds, Absent
    <2>4. QED
      BY <1>1, <2>1, <2>3 DEF PassesOn
  <1>4. ASSUME NEW c \in Conn, NEW i \in Instance, Enter(c, i)
        PROVE  PassesOn(d)
    <2>1. ownership' = IF StateFor(i) = "controllable" THEN [ownership EXCEPT ![DirectoryOf(i)] = i] ELSE ownership
      BY <1>4 DEF Enter
    <2>2. StateFor(i) = "controllable" => ownership[DirectoryOf(i)] \in {None, i}
      BY DEF StateFor
    <2>3. ownership \in [Directory -> Instance \cup {None}]
      BY DEF RegistryInv, RegistryTypeOK
    <2>4. ownership[d] # None => ownership'[d] = ownership[d]
      BY <2>1, <2>2, <2>3
    <2>5. QED
      BY <2>4 DEF PassesOn
  <1>5. ~(\/ \E c \in Conn : BadFrame(c) \/ CloseEvent(c) \/ HeartbeatDrops(c)
          \/ \E k \in Key : DeleteKey(k))
    BY Disconnections
  <1>6. QED
    BY <1>2, <1>3, <1>4, <1>5 DEF RegistryNext, RegisterFrame, RegisterReplacing, Restart, Register,
        RegisterLate, Verify, Add, SocketFails, HeartbeatPings, MarkAlive, ForgetOffline

\* The first registration wins: a directory changes hands only when its owner is
\* gone, and passes to the contender that registered first of those still there.
THEOREM FirstRegistrationWins == RegistrySpec => OwnershipPasses
  <1>1. ASSUME RegistryInv, RegistryNext
        PROVE  \A d \in Directory : PassesOn(d)
    BY <1>1, DisconnectPasses, OthersPass DEF Disconnection
  <1>2. RegistryInv /\ [RegistryNext]_rvars => [\A d \in Directory : PassesOn(d)]_rvars
    BY <1>1
  <1>3. [\A d \in Directory : PassesOn(d)]_rvars =>
            [\A d \in Directory :
                ownership[d] # None /\ ownership'[d] # ownership[d] =>
                    /\ records'[ownership[d]].connection = None
                    /\ \A i, j \in d :
                        (/\ ownership'[d] = i
                         /\ records[j].state = "conflicting" /\ records'[j].state = "conflicting")
                            => records[i].sequence < records[j].sequence]_rvars
    BY DEF PassesOn
  <1>4. QED
    BY <1>2, <1>3, RegistryInvariant, PTL DEF RegistrySpec, OwnershipPasses
=============================================================================
