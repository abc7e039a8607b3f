------------------------ MODULE ConfiguratorProofs --------------------------
(***************************************************************************)
(* Proofs about Configurator, for any files, logins and entries, and about *)
(* Access, which starts servers from those files, for any config files,    *)
(* targets and Authorization fields.                                       *)
(*                                                                         *)
(* The inductive invariant adds what a save in progress has written, which *)
(* is read back unchanged as long as no line was cut, and what it has      *)
(* still to write, and that the table open in the editor holds every user  *)
(* of its file that was not deleted.  Access needs no more than that and   *)
(* what the loops of Routing and GcConfig return.                          *)
(***************************************************************************)
EXTENDS Access, TLAPS, SequenceTheorems, WellFoundedInduction

\* The users written and those still to be written are the users of the table,
\* and nobody is both; those written are read as they are in the table.
SaveUnderWay ==
  unwritten # <<>> =>
    LET p == path[1]
    IN  /\ p \in exists /\ ~complete[p]
        /\ saved[p] = auth_table
        /\ LoginsOf(disk[p]) \cap DOMAIN unwritten[1] = {}
        /\ LoginsOf(disk[p]) \cup DOMAIN unwritten[1] = DOMAIN auth_table[1]
        /\ \A login \in DOMAIN unwritten[1] :
             unwritten[1][login] = auth_table[1][login]
        /\ \A login \in LoginsOf(disk[p]) :
             Load(disk[p])[login] = auth_table[1][login]

\* Opening a file and editing its users never forgets one but by deleting it.
UsersKept ==
  auth_table # <<>> =>
    LoginsOf(disk[path[1]]) \subseteq deleted \cup DOMAIN auth_table[1]

IInv == TypeOK /\ SavedAsEdited /\ SaveUnderWay /\ UsersKept

-----------------------------------------------------------------------------
\* The format of the file.

\* A line that is written is read back as the same user.
LEMMA LineRead ==
  ASSUME NEW login \in Texts, NEW entry \in AuthData
  PROVE  /\ Line(login, entry) \in Seq(Texts)
         /\ Valid(Line(login, entry))
         /\ Line(login, entry)[1] = login
         /\ Entry(Line(login, entry)) = entry
<1> DEFINE line == Line(login, entry)
           head == <<login, Number[entry.permissions], entry.map_groups>>
<1>1. /\ entry.permissions \in AuthorizationType
      /\ entry.map_groups \in Texts
      /\ entry.password \in Seq(Texts)
      /\ entry.password # <<>>
      /\ entry = [permissions |-> entry.permissions, map_groups |-> entry.map_groups,
                  password |-> entry.password]
  BY DEF AuthData
<1>2. Number[entry.permissions] \in Texts
  BY <1>1, ConfiguratorAssumption DEF Number, AuthorizationType
<1>3. head \in Seq(Texts) /\ Len(head) = 3
  BY <1>1, <1>2
<1>4. /\ line \in Seq(Texts)
      /\ Len(line) = 3 + Len(entry.password)
      /\ \A k \in 1 .. 3 : line[k] = head[k]
      /\ \A k \in 1 .. Len(entry.password) : line[k + 3] = entry.password[k]
  BY <1>1, <1>3 DEF Line
<1>5. line[1] = login /\ line[2] = Number[entry.permissions] /\ line[3] = entry.map_groups
  BY <1>4
<1>6. Len(line) >= 4
  BY <1>1, <1>4
<1>7. Valid(line)
  BY <1>1, <1>5, <1>6 DEF Valid
<1>8. (CHOOSE type \in AuthorizationType : Number[type] = line[2]) = entry.permissions
  <2>1. \A type \in AuthorizationType :
          Number[type] = Number[entry.permissions] => type = entry.permissions
    BY <1>1 DEF Number, AuthorizationType
  <2> QED
    BY <1>1, <1>5, <2>1
<1>9. SubSeq(line, 4, Len(line)) = entry.password
  <2>1. /\ SubSeq(line, 4, Len(line)) \in Seq(Texts)
        /\ Len(SubSeq(line, 4, Len(line))) = Len(entry.password)
    BY <1>1, <1>4, <1>6
  <2>2. \A k \in 1 .. Len(entry.password) :
          SubSeq(line, 4, Len(line))[k] = entry.password[k]
    BY <1>1, <1>4, <1>6
  <2> HIDE DEF line
  <2> QED
    BY <1>1, <2>1, <2>2, SeqEqual
<1> QED
  BY <1>1, <1>4, <1>5, <1>7, <1>8, <1>9 DEF Entry

\* A login that is read has a first line.
LEMMA FirstLineLeast ==
  ASSUME NEW lines \in Seq(Seq(Texts)), NEW login \in LoginsOf(lines)
  PROVE  /\ FirstLine(lines, login) \in LinesOf(lines, login)
         /\ \A k \in LinesOf(lines, login) : FirstLine(lines, login) <= k
<1>1. LinesOf(lines, login) # {} /\ LinesOf(lines, login) \subseteq Nat
  BY DEF LinesOf, LoginsOf
<1>2. \E k \in LinesOf(lines, login) : \A j \in LinesOf(lines, login) : k <= j
  <2>1. PICK k \in LinesOf(lines, login) :
          \A j \in LinesOf(lines, login) : <<j, k>> \notin OpToRel(<, Nat)
    BY <1>1, NatLessThanWellFounded, WFMin
  <2>2. \A j \in LinesOf(lines, login) : ~(j < k)
    BY <1>1, <2>1, Zenon DEF OpToRel
  <2> QED
    BY <1>1, <2>2
<1> QED
  BY <1>2 DEF FirstLine

\* What is read is a table of users.
LEMMA LoadTable ==
  ASSUME NEW lines \in Seq(Seq(Texts))
  PROVE  Table(Load(lines)) /\ DOMAIN Load(lines) = LoginsOf(lines)
<1>1. \A line \in Seq(Texts) : Valid(line) => Entry(line) \in AuthData
  <2> SUFFICES ASSUME NEW line \in Seq(Texts), Valid(line)
               PROVE  Entry(line) \in AuthData
    OBVIOUS
  <2>1. Len(line) >= 4
    BY DEF Valid
  <2>2. line[3] \in Texts
    BY <2>1
  <2> DEFINE password == SubSeq(line, 4, Len(line))
  <2>3. password \in Seq(Texts) \ {<<>>}
    <3>1. password \in Seq(Texts) /\ Len(password) = Len(line) - 3
      BY <2>1
    <3> HIDE DEF password
    <3> QED
      BY <2>1, <3>1
  <2>4. (CHOOSE type \in AuthorizationType : Number[type] = line[2]) \in AuthorizationType
    BY DEF Valid
  <2> QED
    BY <2>2, <2>3, <2>4 DEF Entry, AuthData
<1>2. LoginsOf(lines) \subseteq Texts
  BY DEF LoginsOf, Valid
<1>3. \A login \in LoginsOf(lines) : Entry(lines[FirstLine(lines, login)]) \in AuthData
  BY <1>1, FirstLineLeast DEF LinesOf
<1> QED
  BY <1>2, <1>3 DEF Load, Table

\* A truncated file has no users.
LEMMA LoadEmpty == LoginsOf(<<>>) = {}
BY DEF LoginsOf

\* A line cut at any byte is skipped, or read as the same user but for the
\* password, of which the end is missing.
LEMMA LineCut ==
  ASSUME NEW login \in Texts, NEW entry \in AuthData,
         NEW part \in Cuts(Line(login, entry))
  PROVE  /\ part \in Seq(Texts)
         /\ Valid(part) => part[1] = login /\ Entry(part) \in Shortened(entry)
<1> DEFINE line == Line(login, entry)
           word == entry.password
<1>1. /\ entry.permissions \in AuthorizationType /\ entry.map_groups \in Texts
      /\ word \in Seq(Texts)
  BY DEF AuthData
<1>2. /\ line \in Seq(Texts)
      /\ Len(line) = 3 + Len(word)
      /\ line[1] = login /\ line[2] = Number[entry.permissions]
      /\ line[3] = entry.map_groups
      /\ \A k \in 1 .. Len(word) : line[k + 3] = word[k]
  <2>1. Number[entry.permissions] \in Texts
    BY <1>1, ConfiguratorAssumption DEF Number, AuthorizationType
  <2> QED
    BY <1>1, <2>1 DEF Line
<1>0. PICK k \in DOMAIN line :
        \E text \in Beginnings[line[k]] : part = Append(SubSeq(line, 1, k - 1), text)
  BY DEF Cuts
<1>3. PICK text \in Beginnings[line[k]] : part = Append(SubSeq(line, 1, k - 1), text)
  BY <1>0
<1> HIDE DEF line, word
<1>4. k \in 1 .. Len(line) /\ line[k] \in Texts
  BY <1>2
<1>5. text \in Texts
  BY <1>3, <1>4, ConfiguratorAssumption
<1>6. /\ part \in Seq(Texts) /\ Len(part) = k
      /\ part[k] = text /\ \A j \in 1 .. k - 1 : part[j] = line[j]
  BY <1>2, <1>3, <1>4, <1>5
<1>7. ASSUME Valid(part)
      PROVE  part[1] = login /\ Entry(part) \in Shortened(entry)
  <2>1. k >= 4
    BY <1>6, <1>7 DEF Valid
  <2>2. part[1] = login /\ part[2] = line[2] /\ part[3] = line[3]
    BY <1>2, <1>6, <2>1
  <2> DEFINE cut == Append(SubSeq(word, 1, k - 4), text)
  <2>3. k - 3 \in 1 .. Len(word) /\ line[k] = word[k - 3]
    BY <1>2, <1>4, <2>1
  <2>4. cut \in Cuts(word)
    <3>1. text \in Beginnings[word[k - 3]] /\ k - 3 \in DOMAIN word
      BY <1>1, <2>3 DEF word
    <3>2. cut = Append(SubSeq(word, 1, (k - 3) - 1), text)
      BY <1>4
    <3> HIDE DEF cut
    <3>3. cut \in {Append(SubSeq(word, 1, (k - 3) - 1), t) : t \in Beginnings[word[k - 3]]}
      BY <3>1, <3>2
    <3> QED
      BY <3>1, <3>3, Zenon DEF Cuts
  <2>5. /\ cut \in Seq(Texts) /\ Len(cut) = k - 3
        /\ cut[k - 3] = text /\ \A j \in 1 .. k - 4 : cut[j] = word[j]
    BY <1>1, <1>4, <1>5, <2>1, <2>3 DEF word
  <2> HIDE DEF cut
  <2>6. SubSeq(part, 4, Len(part)) = cut
    <3> DEFINE rest == SubSeq(part, 4, Len(part))
    <3>1. rest \in Seq(Texts) /\ Len(rest) = k - 3
      BY <1>4, <1>6, <2>1
    <3>2. \A j \in 1 .. k - 3 : rest[j] = part[j + 3]
      BY <1>4, <1>6, <2>1
    <3>3. ASSUME NEW j \in 1 .. k - 4
          PROVE  part[j + 3] = word[j]
      <4>1. j + 3 \in 1 .. k - 1 /\ j \in 1 .. Len(word)
        BY <1>2, <1>4, <2>1, <2>3
      <4> QED
        BY <1>2, <1>6, <4>1
    <3>4. part[(k - 3) + 3] = text
      BY <1>4, <1>6
    <3> HIDE DEF rest
    <3>5. \A j \in 1 .. k - 3 : rest[j] = cut[j]
      BY <1>4, <2>1, <2>5, <3>2, <3>3, <3>4
    <3> QED
      BY <2>5, <3>1, <3>5, SeqEqual DEF rest
  <2>7. (CHOOSE type \in AuthorizationType : Number[type] = part[2]) = entry.permissions
    <3>1. \A type \in AuthorizationType :
            Number[type] = Number[entry.permissions] => type = entry.permissions
      BY <1>1 DEF Number, AuthorizationType
    <3> QED
      BY <1>1, <1>2, <2>2, <3>1
  <2>8. Entry(part) = [permissions |-> entry.permissions,
                       map_groups |-> entry.map_groups, password |-> cut]
    BY <1>2, <2>2, <2>6, <2>7 DEF Entry
  <2>9. [entry EXCEPT !.password = cut]
          = [permissions |-> entry.permissions, map_groups |-> entry.map_groups,
             password |-> cut]
    BY DEF AuthData
  <2>10. Entry(part) \in Shortened(entry)
    BY <2>4, <2>8, <2>9, Zenon DEF Shortened, word
  <2> QED
    BY <2>2, <2>10
<1> QED
  BY <1>6, <1>7

\* Writing a line adds its user, if it is not one to be skipped and that user is
\* not in the file yet, and leaves the others as they are read.
LEMMA LoadAppend ==
  ASSUME NEW lines \in Seq(Seq(Texts)), NEW line \in Seq(Texts),
         Valid(line) => line[1] \notin LoginsOf(lines)
  PROVE  LET after == Append(lines, line)
         IN  /\ after \in Seq(Seq(Texts))
             /\ after # <<>> /\ after[Len(after)] = line
             /\ LoginsOf(after)
                  = LoginsOf(lines) \cup (IF Valid(line) THEN {line[1]} ELSE {})
             /\ \A other \in LoginsOf(lines) : Load(after)[other] = Load(lines)[other]
             /\ Valid(line) => Load(after)[line[1]] = Entry(line)
<1> DEFINE after == Append(lines, line)
           new   == IF Valid(line) THEN {line[1]} ELSE {}
<1>2. /\ after \in Seq(Seq(Texts))
      /\ Len(after) = Len(lines) + 1
      /\ DOMAIN after = DOMAIN lines \cup {Len(lines) + 1}
      /\ \A k \in DOMAIN lines : after[k] = lines[k]
      /\ after[Len(lines) + 1] = line
      /\ Len(lines) + 1 \notin DOMAIN lines
  OBVIOUS
<1> HIDE DEF after
<1>3. LoginsOf(after) = LoginsOf(lines) \cup new
  <2>1. \A login : login \in LoginsOf(after) <=>
                   \E k \in DOMAIN after : Valid(after[k]) /\ login = after[k][1]
    BY DEF LoginsOf
  <2>2. \A login : login \in LoginsOf(lines) <=>
                   \E k \in DOMAIN lines : Valid(lines[k]) /\ login = lines[k][1]
    BY DEF LoginsOf
  <2>3. \A login : login \in new <=> Valid(line) /\ login = line[1]
    OBVIOUS
  <2> HIDE DEF new
  <2>4. ASSUME NEW login
        PROVE  login \in LoginsOf(after) <=> login \in LoginsOf(lines) \/ login \in new
    <3>1. ASSUME NEW k \in DOMAIN after
          PROVE  \/ k \in DOMAIN lines /\ after[k] = lines[k]
                 \/ after[k] = line
      BY <1>2
    <3>2. ASSUME NEW k \in DOMAIN lines
          PROVE  k \in DOMAIN after /\ after[k] = lines[k]
      BY <1>2
    <3>3. PICK k \in DOMAIN after : after[k] = line
      BY <1>2
    <3>4. ASSUME login \in LoginsOf(after)
          PROVE  login \in LoginsOf(lines) \/ login \in new
      <4>1. PICK j \in DOMAIN after : Valid(after[j]) /\ login = after[j][1]
        BY <2>1, <3>4
      <4>2. CASE j \in DOMAIN lines /\ after[j] = lines[j]
        BY <2>2, <4>1, <4>2
      <4>3. CASE after[j] = line
        BY <2>3, <4>1, <4>3
      <4> QED
        BY <3>1, <4>2, <4>3
    <3>5. ASSUME login \in LoginsOf(lines)
          PROVE  login \in LoginsOf(after)
      <4>1. PICK j \in DOMAIN lines : Valid(lines[j]) /\ login = lines[j][1]
        BY <2>2, <3>5
      <4> QED
        BY <2>1, <3>2, <4>1
    <3>6. ASSUME login \in new
          PROVE  login \in LoginsOf(after)
      <4>1. Valid(after[k]) /\ login = after[k][1]
        BY <2>3, <3>3, <3>6
      <4> QED
        BY <2>1, <4>1
    <3> QED
      BY <3>4, <3>5, <3>6
  <2> QED
    BY <2>4
<1>4. \A other \in LoginsOf(lines) : LinesOf(after, other) = LinesOf(lines, other)
  BY <1>2 DEF LinesOf
<1>5. Valid(line) => LinesOf(after, line[1]) = {Len(lines) + 1}
  BY <1>2 DEF LinesOf, LoginsOf
<1>6. ASSUME NEW other \in LoginsOf(lines)
      PROVE  Load(after)[other] = Load(lines)[other]
  <2>1. FirstLine(after, other) = FirstLine(lines, other)
    <3>1. /\ FirstLine(after, other) \in LinesOf(lines, other)
          /\ FirstLine(lines, other) \in LinesOf(lines, other)
          /\ FirstLine(after, other) <= FirstLine(lines, other)
          /\ FirstLine(lines, other) <= FirstLine(after, other)
      BY <1>2, <1>3, <1>4, FirstLineLeast
    <3>2. LinesOf(lines, other) \subseteq Nat
      BY DEF LinesOf
    <3> QED
      BY <3>1, <3>2
  <2>2. FirstLine(lines, other) \in DOMAIN lines
    BY FirstLineLeast DEF LinesOf
  <2> QED
    BY <1>2, <1>3, <2>1, <2>2 DEF Load
<1>7. ASSUME Valid(line)
      PROVE  Load(after)[line[1]] = Entry(line)
  <2>1. line[1] \in LoginsOf(after)
    BY <1>3, <1>7
  <2>2. FirstLine(after, line[1]) = Len(lines) + 1
    BY <1>2, <1>5, <1>7, <2>1, FirstLineLeast
  <2> QED
    BY <1>2, <2>1, <2>2 DEF Load
<1>8. after # <<>> /\ after[Len(after)] = line
  BY <1>2
<1> QED
  BY <1>2, <1>3, <1>6, <1>7, <1>8 DEF after
-----------------------------------------------------------------------------
\* Files exist or not, with any lines, and nothing is open.
LEMMA InitIInv == Init => IInv
<1> SUFFICES ASSUME Init
             PROVE  IInv
  OBVIOUS
<1>1. InitialFiles \cup {<<>>} \subseteq Seq(Seq(Texts))
  <2>1. <<>> \in Seq(Seq(Texts))
    OBVIOUS
  <2> QED
    BY <2>1, ConfiguratorAssumption
<1>2. disk \in [Paths -> Seq(Seq(Texts))]
  BY <1>1 DEF Init
<1>3. TypeOK
  BY <1>2 DEF Init, TypeOK, Optional
<1> QED
  BY <1>3 DEF Init, IInv, SavedAsEdited, SaveUnderWay, UsersKept

\* Every menu entry, every line written and every kill preserves it.
LEMMA NextIInv == IInv /\ [Next]_vars => IInv'
<1> SUFFICES ASSUME IInv, [Next]_vars
             PROVE  IInv'
  OBVIOUS
<1> USE DEF IInv
<1>1. \A p \in Paths : disk[p] \in Seq(Seq(Texts))
  BY DEF TypeOK
<1>2. auth_table # <<>> =>
        /\ path[1] \in Paths /\ path = <<path[1]>>
        /\ Table(auth_table[1]) /\ auth_table = <<auth_table[1]>>
  BY DEF TypeOK, Optional
<1>3. unwritten # <<>> =>
        Table(unwritten[1]) /\ unwritten = <<unwritten[1]>> /\ auth_table # <<>>
  BY DEF TypeOK, Optional
<1>4. ASSUME NEW p \in Paths, SetFilePath(p)
      PROVE  IInv'
  <2>1. Optional(auth_table') /\ path' = <<p>>
    <3>1. Optional(<<EmptyTable>>) /\ Optional(<<>>)
      BY DEF Optional, Table, EmptyTable
    <3>2. Optional(<<Load(disk[p])>>)
      BY <1>1, LoadTable DEF Optional
    <3> QED
      BY <1>4, <3>1, <3>2 DEF SetFilePath
  <2>2. TypeOK'
    BY <1>4, <2>1 DEF SetFilePath, AtMenu, TypeOK, Optional
  <2>3. SavedAsEdited' /\ SaveUnderWay'
    BY <1>4 DEF SetFilePath, AtMenu, SavedAsEdited, SaveUnderWay
  <2>4. UsersKept'
    <3>1. CASE p \notin exists
      <4>1. disk[p] = <<>>
        BY <3>1 DEF TypeOK
      <4> QED
        BY <1>4, <4>1, LoadEmpty DEF SetFilePath, UsersKept
    <3>2. CASE p \in exists
      BY <1>1, <1>4, <3>2, LoadTable DEF SetFilePath, UsersKept
    <3> QED
      BY <3>1, <3>2
  <2> QED
    BY <2>2, <2>3, <2>4
<1>5. ASSUME NEW login \in Logins, NEW entry \in Entries, AddUser(login, entry)
      PROVE  IInv'
  <2>1. Table(With(auth_table[1], login, entry))
    BY <1>2, <1>5, ConfiguratorAssumption DEF AddUser, With, Table
  <2>2. TypeOK'
    BY <1>2, <1>5, <2>1 DEF AddUser, AtMenu, TypeOK, Optional
  <2>3. SavedAsEdited' /\ SaveUnderWay'
    BY <1>5 DEF AddUser, AtMenu, SavedAsEdited, SaveUnderWay
  <2>4. UsersKept'
    BY <1>5 DEF AddUser, UsersKept, With
  <2> QED
    BY <2>2, <2>3, <2>4
<1>6. ASSUME auth_table # <<>>, NEW login \in DOMAIN auth_table[1], DeleteUser(login)
      PROVE  IInv'
  <2>1. Table(Without(auth_table[1], login)) /\ login \in Texts
    BY <1>2, <1>6 DEF DeleteUser, Without, Table
  <2>2. TypeOK'
    BY <1>2, <1>6, <2>1 DEF DeleteUser, AtMenu, TypeOK, Optional
  <2>3. SavedAsEdited' /\ SaveUnderWay'
    BY <1>6 DEF DeleteUser, AtMenu, SavedAsEdited, SaveUnderWay
  <2>4. UsersKept'
    BY <1>6 DEF DeleteUser, UsersKept, Without
  <2> QED
    BY <2>2, <2>3, <2>4
<1>7. ASSUME WriteToDisk
      PROVE  IInv'
  <2> DEFINE file == path[1]
  <2>1. file \in Paths /\ auth_table # <<>> /\ disk' = [disk EXCEPT ![file] = <<>>]
    BY <1>2, <1>7 DEF WriteToDisk
  <2>2. TypeOK'
    BY <1>2, <1>7, <2>1 DEF WriteToDisk, TypeOK, Optional
  <2>3. SavedAsEdited'
    <3>1. \A table : Preserved(<<>>, table)
      BY LoadEmpty DEF Load, Preserved
    <3>2. disk'[file] = <<>> /\ ~complete'[file]
      BY <1>7, <2>1 DEF WriteToDisk, TypeOK
    <3>3. \A p \in Paths \ {file} : /\ disk'[p] = disk[p] /\ saved'[p] = saved[p]
                                    /\ complete'[p] = complete[p]
      BY <1>7, <2>1 DEF WriteToDisk, TypeOK
    <3> QED
      BY <3>1, <3>2, <3>3 DEF SavedAsEdited
  <2>4. SaveUnderWay'
    BY <1>7, <2>1, LoadEmpty DEF WriteToDisk, SaveUnderWay, TypeOK
  <2>5. UsersKept'
    BY <1>7, <2>1, LoadEmpty DEF WriteToDisk, UsersKept, TypeOK
  <2> QED
    BY <2>2, <2>3, <2>4, <2>5
<1>8. ASSUME unwritten # <<>>, NEW login \in DOMAIN unwritten[1], WriteUser(login)
      PROVE  IInv'
  <2> DEFINE file  == path[1]
             lines == disk[file]
             entry == unwritten[1][login]
             line  == Line(login, entry)
             after == Append(lines, line)
             table == auth_table[1]
  <2>1. /\ file \in Paths /\ lines \in Seq(Seq(Texts))
        /\ login \in Texts /\ entry \in AuthData /\ entry = table[login]
        /\ login \notin LoginsOf(lines) /\ login \in DOMAIN table
        /\ saved[file] = <<table>> /\ ~complete[file]
        /\ LoginsOf(lines) \subseteq DOMAIN table
        /\ \A other \in LoginsOf(lines) : Load(lines)[other] = table[other]
    BY <1>1, <1>2, <1>3, <1>8 DEF SaveUnderWay, Table
  <2>2. /\ after \in Seq(Seq(Texts))
        /\ LoginsOf(after) = LoginsOf(lines) \cup {login}
        /\ \A other \in LoginsOf(lines) : Load(after)[other] = Load(lines)[other]
        /\ Load(after)[login] = entry
    <3>1. /\ line \in Seq(Texts) /\ Valid(line) /\ line[1] = login
          /\ Entry(line) = entry
      BY <2>1, LineRead
    <3> HIDE DEF line, entry
    <3> QED
      BY <2>1, <3>1, LoadAppend
  <2>3. disk' = [disk EXCEPT ![file] = after]
    BY <1>8 DEF WriteUser
  <2>4. /\ unwritten' = <<Without(unwritten[1], login)>>
        /\ Table(Without(unwritten[1], login))
    BY <1>3, <1>8 DEF WriteUser, Without, Table
  <2> HIDE DEF entry, after
  <2>5. TypeOK'
    <3>1. disk' \in [Paths -> Seq(Seq(Texts))]
      BY <2>1, <2>2, <2>3 DEF TypeOK
    <3>2. file \in exists
      BY <1>8 DEF SaveUnderWay
    <3> QED
      BY <1>3, <1>8, <2>1, <2>3, <2>4, <3>1, <3>2 DEF WriteUser, TypeOK, Optional
  <2>6. /\ \A other \in LoginsOf(after) : Load(after)[other] = table[other]
        /\ Preserved(after, table)
    <3>1. DOMAIN Load(after) = LoginsOf(after)
      BY <2>2, LoadTable
    <3> QED
      BY <2>1, <2>2, <3>1 DEF Preserved
  <2>7. SavedAsEdited'
    <3>1. \A p \in Paths \ {file} : disk'[p] = disk[p]
      BY <2>1, <2>3 DEF TypeOK
    <3>2. disk'[file] = after
      BY <2>1, <2>3 DEF TypeOK
    <3>3. UNCHANGED <<saved, complete>>
      BY <1>8 DEF WriteUser
    <3>4. saved[file][1] = table
      BY <2>1
    <3> HIDE DEF table
    <3> QED
      BY <2>1, <2>6, <3>1, <3>2, <3>3, <3>4 DEF SavedAsEdited
  <2>8. SaveUnderWay'
    <3>1. disk'[file] = after
      BY <2>1, <2>3 DEF TypeOK
    <3>2. UNCHANGED <<exists, path, auth_table, saved, complete>>
      BY <1>8 DEF WriteUser
    <3>3. unwritten'[1] = Without(unwritten[1], login)
      BY <2>4
    <3> QED
      BY <1>8, <2>2, <2>6, <3>1, <3>2, <3>3 DEF SaveUnderWay, Without
  <2>9. UsersKept'
    <3>1. disk'[file] = after
      BY <2>1, <2>3 DEF TypeOK
    <3>2. UNCHANGED <<path, auth_table, deleted>>
      BY <1>8 DEF WriteUser
    <3> QED
      BY <2>1, <2>2, <3>1, <3>2 DEF UsersKept
  <2> QED
    BY <2>5, <2>7, <2>8, <2>9
<1>9. ASSUME unwritten # <<>>, NEW login \in DOMAIN unwritten[1], DiskFull(login)
      PROVE  IInv'
  <2> DEFINE file  == path[1]
             lines == disk[file]
             entry == unwritten[1][login]
             table == auth_table[1]
  <2>1. /\ file \in Paths /\ file \in exists /\ lines \in Seq(Seq(Texts))
        /\ login \in Texts /\ entry \in AuthData /\ entry = table[login]
        /\ login \notin LoginsOf(lines) /\ login \in DOMAIN table
        /\ saved[file] = <<table>> /\ ~complete[file]
        /\ LoginsOf(lines) \subseteq DOMAIN table
        /\ \A other \in LoginsOf(lines) : Load(lines)[other] = table[other]
    BY <1>1, <1>2, <1>3, <1>9 DEF SaveUnderWay, Table
  <2>2. /\ unwritten' = <<>>
        /\ UNCHANGED <<exists, path, auth_table, cin_failed, saved, complete, deleted>>
    BY <1>9 DEF DiskFull
  <2>3. CASE UNCHANGED disk
    BY <2>2, <2>3 DEF TypeOK, Optional, SavedAsEdited, SaveUnderWay, UsersKept
  <2>4. ASSUME NEW part \in Cuts(Line(login, entry)),
               disk' = [disk EXCEPT ![file] = Append(lines, part)]
        PROVE  IInv'
    <3> DEFINE after == Append(lines, part)
    <3>1. /\ part \in Seq(Texts)
          /\ Valid(part) => part[1] = login /\ Entry(part) \in Shortened(entry)
      <4>1. part \in Cuts(Line(login, entry))
        BY <2>4
      <4> HIDE DEF entry
      <4> QED
        BY <2>1, <4>1, LineCut
    <3>2. /\ after \in Seq(Seq(Texts))
          /\ after[Len(after)] = part
          /\ LoginsOf(after)
               = LoginsOf(lines) \cup (IF Valid(part) THEN {part[1]} ELSE {})
          /\ \A other \in LoginsOf(lines) : Load(after)[other] = Load(lines)[other]
          /\ Valid(part) => Load(after)[part[1]] = Entry(part)
      BY <2>1, <3>1, LoadAppend
    <3>3. disk'[file] = after /\ \A p \in Paths \ {file} : disk'[p] = disk[p]
      BY <2>1, <2>4 DEF TypeOK
    <3>4. disk' \in [Paths -> Seq(Seq(Texts))]
      BY <2>1, <2>4, <3>2 DEF TypeOK
    <3> HIDE DEF after
    <3>5. TypeOK'
      BY <2>1, <2>2, <3>3, <3>4 DEF TypeOK, Optional
    <3>6. DOMAIN Load(after) = LoginsOf(after) /\ LoginsOf(after) \subseteq DOMAIN table
      BY <2>1, <3>1, <3>2, LoadTable
    <3>7. \A other \in LoginsOf(after) :
            \/ Load(after)[other] = table[other]
            \/ other = after[Len(after)][1] /\ Load(after)[other] \in Shortened(table[other])
      <4> SUFFICES ASSUME NEW other \in LoginsOf(after)
                   PROVE  \/ Load(after)[other] = table[other]
                          \/ /\ other = after[Len(after)][1]
                             /\ Load(after)[other] \in Shortened(table[other])
        OBVIOUS
      <4>1. CASE other \in LoginsOf(lines)
        BY <2>1, <3>2, <4>1
      <4>2. CASE other \notin LoginsOf(lines)
        <5>1. Valid(part) /\ other = part[1] /\ other = login
          BY <3>1, <3>2, <4>2
        <5> QED
          BY <2>1, <3>1, <3>2, <5>1
      <4> QED
        BY <4>1, <4>2
    <3>8. SavedAsEdited'
      <4>1. saved[file][1] = table
        BY <2>1
      <4> HIDE DEF table
      <4>2. Preserved(after, table)
        BY <3>6, <3>7, Zenon DEF Preserved
      <4> QED
        BY <2>1, <2>2, <3>3, <4>1, <4>2 DEF SavedAsEdited
    <3>9. SaveUnderWay' /\ UsersKept'
      BY <2>1, <2>2, <3>3, <3>6 DEF SaveUnderWay, UsersKept
    <3> QED
      BY <3>5, <3>8, <3>9
  <2> QED
    BY <1>9, <2>3, <2>4 DEF DiskFull
<1>10. ASSUME EndOfSave
       PROVE  IInv'
  <2> DEFINE file == path[1]
  <2>1. /\ unwritten # <<>> /\ unwritten' = <<>> /\ DOMAIN unwritten[1] = {}
        /\ complete' = [complete EXCEPT ![file] = TRUE]
        /\ UNCHANGED <<disk, exists, path, auth_table, cin_failed, saved, deleted>>
    BY <1>10 DEF EndOfSave
  <2>2. file \in Paths /\ disk[file] \in Seq(Seq(Texts))
    BY <1>1, <1>2, <1>3, <2>1
  <2>3. TypeOK'
    BY <2>1 DEF TypeOK, Optional
  <2>4. SavedAsEdited'
    <3>1. \A p \in Paths \ {file} : complete'[p] = complete[p]
      BY <2>1 DEF TypeOK
    <3>2. Load(disk[file]) = saved[file][1]
      <4>1. /\ saved[file] = auth_table
            /\ LoginsOf(disk[file]) = DOMAIN auth_table[1]
            /\ \A login \in LoginsOf(disk[file]) :
                 Load(disk[file])[login] = auth_table[1][login]
        BY <2>1 DEF SaveUnderWay
      <4>2. Table(auth_table[1]) /\ Table(Load(disk[file]))
        BY <1>2, <1>3, <2>1, <2>2, LoadTable
      <4> QED
        BY <2>2, <4>1, <4>2, LoadTable DEF Table
    <3> QED
      BY <2>1, <3>1, <3>2 DEF SavedAsEdited
  <2>5. SaveUnderWay' /\ UsersKept'
    BY <2>1 DEF SaveUnderWay, UsersKept
  <2> QED
    BY <2>3, <2>4, <2>5
<1>11. CASE Mistype
  BY <1>11 DEF Mistype, TypeOK, SavedAsEdited, SaveUnderWay, UsersKept, AtMenu
<1>12. CASE Restart
  BY <1>12 DEF Restart, TypeOK, Optional, SavedAsEdited, SaveUnderWay, UsersKept
<1>13. CASE UNCHANGED vars
  BY <1>13 DEF vars, TypeOK, SavedAsEdited, SaveUnderWay, UsersKept
<1> QED
  BY <1>4, <1>5, <1>6, <1>7, <1>8, <1>9, <1>10, <1>11, <1>12,
     <1>13 DEF Next
-----------------------------------------------------------------------------
\* What a save has written and what it will write add up to the table, and an
\* open table has its file's users, in every reachable state.
THEOREM InductiveInvariant == Spec => []IInv
<1> QED
  BY InitIInv, NextIInv, PTL DEF Spec

\* Every step leaves every variable within its type, and a save under way has a
\* table and a file to go on with.
THEOREM Typing == Spec => []TypeOK
<1>1. IInv => TypeOK
  BY DEF IInv
<1> QED
  BY <1>1, InductiveInvariant, PTL

\* What can be read from a saved file is what was in the editor, but for the end of
\* the password of the one user on whose line a full disk has cut the file off
\* (auth_table.hpp, write and read in any order with edits, kills and full disks).
THEOREM FilesAreAsEdited == Spec => []SavedAsEdited
<1>1. IInv => SavedAsEdited
  BY DEF IInv
<1> QED
  BY <1>1, InductiveInvariant, PTL

\* Truncation throws away only what will be written again or was deleted
\* (write_to_disk overwrites the file that set_file_path has read).
THEOREM TruncationKeepsUsers == Spec => TruncationLosesOnlyDeleted
<1> DEFINE Kept ==
      \A p \in Paths : disk[p] # <<>> /\ disk'[p] = <<>> =>
        DOMAIN Load(disk[p]) \subseteq deleted \cup DOMAIN unwritten'[1]
<1>1. IInv /\ [Next]_vars => [Kept]_vars
  <2> SUFFICES ASSUME IInv, Next, NEW p \in Paths, disk[p] # <<>>, disk'[p] = <<>>
               PROVE  DOMAIN Load(disk[p]) \subseteq deleted \cup DOMAIN unwritten'[1]
    OBVIOUS
  <2>1. \A login : ~WriteUser(login) /\ ~DiskFull(login)
    <3> SUFFICES ASSUME NEW login, WriteUser(login) \/ DiskFull(login)
                 PROVE  FALSE
      OBVIOUS
    <3> DEFINE line == Line(login, unwritten[1][login])
    <3>1. unwritten # <<>> /\ login \in DOMAIN unwritten[1] /\ path[1] \in Paths
      BY DEF WriteUser, DiskFull, IInv, TypeOK
    <3>2. login \in Texts /\ unwritten[1][login] \in AuthData
      BY <3>1 DEF IInv, TypeOK, Optional, Table
    <3>3. line \in Seq(Texts) /\ \A part \in Cuts(line) : part \in Seq(Texts)
      BY <3>2, LineRead, LineCut
    <3>4. disk' # disk
      OBVIOUS
    <3>5. PICK written \in Seq(Texts) :
            disk' = [disk EXCEPT ![path[1]] = Append(@, written)]
      BY <3>3, <3>4 DEF WriteUser, DiskFull
    <3>6. Append(disk[p], written) # <<>>
      <4>1. disk[p] \in Seq(Seq(Texts))
        BY DEF IInv, TypeOK
      <4> QED
        BY <4>1, AppendProperties
    <3>7. p # path[1] => disk'[p] = disk[p]
      BY <3>1, <3>5 DEF IInv, TypeOK
    <3>8. p = path[1] => disk'[p] = Append(disk[p], written)
      BY <3>1, <3>5 DEF IInv, TypeOK
    <3> QED
      BY <3>6, <3>7, <3>8
  <2>2. WriteToDisk /\ p = path[1]
    <3>1. disk' # disk
      OBVIOUS
    <3>2. WriteToDisk
      BY <2>1, <3>1 DEF Next, SetFilePath, AddUser, DeleteUser, EndOfSave, Mistype, Restart
    <3> QED
      BY <3>2 DEF WriteToDisk, IInv, TypeOK
  <2>3. DOMAIN Load(disk[p]) = LoginsOf(disk[p])
    BY DEF Load
  <2> QED
    BY <2>2, <2>3 DEF WriteToDisk, IInv, UsersKept
<1> QED
  BY <1>1, InductiveInvariant, PTL DEF Spec, TruncationLosesOnlyDeleted

-----------------------------------------------------------------------------
\* Loops over sequences.

\* What holds at first and is kept from one number to the next holds of all.
LEMMA Counting ==
  ASSUME NEW S \in SUBSET Nat, 0 \in S, \A n \in S : n + 1 \in S
  PROVE  S = Nat
<1> SUFFICES ASSUME Nat \ S # {} PROVE FALSE
  OBVIOUS
<1>1. PICK n \in Nat \ S : \A m \in Nat \ S : <<m, n>> \notin OpToRel(<, Nat)
  BY NatLessThanWellFounded, WFMin
<1>2. \A m \in Nat \ S : ~(m < n)
  BY <1>1, Zenon DEF OpToRel
<1>3. n \in Nat /\ n \notin S /\ n # 0
  BY <1>1
<1>4. n - 1 \in Nat /\ n - 1 < n /\ (n - 1) + 1 = n
  BY <1>3
<1>5. n - 1 \in S
  BY <1>2, <1>4
<1> QED
  BY <1>3, <1>4, <1>5

\* get_endpoint_permissions goes by the first piece of a target, however deep
\* the target is.
LEMMA EndpointOfFirstPiece ==
  ASSUME NEW S, NEW target \in Seq(S)
  PROVE  GetEndpointPermissions(target)
           = IF target # <<>> /\ target[1] \in DOMAIN EndpointMap
             THEN EndpointMap[target[1]] ELSE Nothing
<1> DEFINE P == Prefixes(target)
           perms(p) == IF p # <<>> /\ p[1] \in DOMAIN EndpointMap
                       THEN EndpointMap[p[1]] ELSE Nothing
           step(f) == [p \in P |->
                         IF p = <<>> THEN Nothing
                         ELSE IF Len(p) > 1 THEN f[Front(p)]
                         ELSE IF p[1] \in DOMAIN EndpointMap THEN EndpointMap[p[1]]
                         ELSE Nothing]
           needed == CHOOSE f : f = step(f)
           g == [p \in P |-> perms(p)]
<1>1. target \in P /\ \A p \in P : p \in Seq(S)
  <2>1. Len(target) \in 0 .. Len(target) /\ SubSeq(target, 1, Len(target)) = target
    OBVIOUS
  <2>2. \A l \in 0 .. Len(target) : SubSeq(target, 1, l) \in Seq(S)
    OBVIOUS
  <2> QED
    BY <2>1, <2>2 DEF Prefixes
<1>2. ASSUME NEW p \in P, Len(p) > 1
      PROVE  Front(p) \in P /\ Len(Front(p)) = Len(p) - 1 /\ Front(p)[1] = p[1]
  <2>1. PICK l \in 0 .. Len(target) : p = SubSeq(target, 1, l)
    BY DEF Prefixes
  <2>2. Len(p) = l
    BY <2>1
  <2>3. Front(p) = SubSeq(p, 1, l - 1) /\ l - 1 \in 0 .. Len(target)
    BY <1>2, <2>2 DEF Front
  <2>4. SubSeq(p, 1, l - 1) = SubSeq(target, 1, l - 1)
    <3>1. /\ SubSeq(p, 1, l - 1) \in Seq(S) /\ SubSeq(target, 1, l - 1) \in Seq(S)
          /\ Len(SubSeq(p, 1, l - 1)) = l - 1 /\ Len(SubSeq(target, 1, l - 1)) = l - 1
      BY <1>1, <2>1, <2>2, <2>3
    <3>2. \A k \in 1 .. l - 1 : SubSeq(p, 1, l - 1)[k] = SubSeq(target, 1, l - 1)[k]
      BY <1>1, <2>1, <2>2, <2>3
    <3> QED
      BY <3>1, <3>2, SeqEqual
  <2> QED
    BY <1>1, <1>2, <2>1, <2>2, <2>3, <2>4 DEF Prefixes
<1> HIDE DEF P
<1>3. g = step(g)
  <2> SUFFICES ASSUME NEW p \in P
               PROVE  perms(p) = step(g)[p]
    OBVIOUS
  <2>1. CASE p # <<>> /\ Len(p) > 1
    <3>1. Front(p) # <<>> /\ Front(p) \in P /\ Front(p)[1] = p[1]
      BY <1>1, <1>2, <2>1
    <3> QED
      BY <2>1, <3>1
  <2>2. CASE p = <<>> \/ ~(Len(p) > 1)
    BY <2>2
  <2> QED
    BY <2>1, <2>2
<1>4. needed = step(needed)
  BY <1>3
<1> HIDE DEF needed
<1>5. \A p \in P : needed[p] = perms(p)
  <2> DEFINE N == {n \in Nat : \A p \in P : Len(p) <= n => needed[p] = perms(p)}
  <2>1. 0 \in N
    <3>1. \A p \in P : Len(p) <= 0 => p = <<>>
      BY <1>1
    <3> QED
      BY <1>4, <3>1
  <2>2. ASSUME NEW n \in N PROVE n + 1 \in N
    <3> SUFFICES ASSUME NEW p \in P, Len(p) <= n + 1
                 PROVE  needed[p] = perms(p)
      OBVIOUS
    <3>1. Len(p) \in Nat
      BY <1>1
    <3>2. CASE Len(p) > 1
      <4>1. Front(p) \in P /\ Len(Front(p)) <= n /\ Front(p)[1] = p[1] /\ Front(p) # <<>> /\ p # <<>>
        BY <1>1, <1>2, <3>1, <3>2
      <4>2. needed[p] = needed[Front(p)]
        BY <1>4, <3>2, <4>1
      <4> QED
        BY <4>1, <4>2
    <3>3. CASE ~(Len(p) > 1)
      BY <1>4, <3>3
    <3> QED
      BY <3>2, <3>3
  <2>3. N = Nat
    <3> HIDE DEF N
    <3>1. N \in SUBSET Nat
      BY DEF N
    <3> QED
      BY <2>1, <2>2, <3>1, Counting
  <2>4. \A p \in P : Len(p) \in N /\ Len(p) <= Len(p)
    <3> HIDE DEF N
    <3> QED
      BY <1>1, <2>3
  <2> QED
    BY <2>4
<1>6. GetEndpointPermissions(target) = needed[target]
  BY DEF GetEndpointPermissions, needed, P
<1> QED
  BY <1>1, <1>5, <1>6

\* What is listed are the maps that are not hidden from the user.
Lists(listed, maps, permissions, groups) ==
  /\ \A j \in DOMAIN listed :
       \E k \in DOMAIN maps : /\ ~Hidden(maps[k], permissions, groups)
                              /\ listed[j] = ToClientJson(maps[k])
  /\ \A k \in DOMAIN maps : ~Hidden(maps[k], permissions, groups) =>
       \E j \in DOMAIN listed : listed[j] = ToClientJson(maps[k])

\* get_maps_for_client leaves out what is hidden, and nothing else.
LEMMA ClientMaps ==
  ASSUME NEW S, NEW maps \in Seq(S), NEW permissions, NEW groups
  PROVE  Lists(GetMapsForClient(maps, permissions, groups), maps, permissions, groups)
<1> DEFINE n == Len(maps)
           hidden(k) == Hidden(maps[k], permissions, groups)
           json(k) == ToClientJson(maps[k])
           step(f, m) == [k \in 0 .. m |->
                            IF k = 0 THEN <<>>
                            ELSE IF hidden(k) THEN f[k - 1]
                            ELSE Append(f[k - 1], json(k))]
           jsonified == CHOOSE f : f = step(f, n)
           listed == GetMapsForClient(maps, permissions, groups)
<1>1. n \in Nat /\ DOMAIN maps = 1 .. n
  OBVIOUS
<1>2. listed = jsonified[n]
  BY DEF GetMapsForClient
<1> HIDE DEF n, hidden, json
<1>3. jsonified = step(jsonified, n)
  <2> DEFINE M == {m \in Nat : \E f : f = step(f, m)}
  <2>1. 0 \in M
    <3> DEFINE f == [k \in 0 .. 0 |-> <<>>]
    <3>1. f = step(f, 0)
      OBVIOUS
    <3> QED
      BY <3>1
  <2>2. ASSUME NEW m \in M PROVE m + 1 \in M
    <3>1. PICK f : f = step(f, m)
      OBVIOUS
    <3> DEFINE last == IF hidden(m + 1) THEN f[m] ELSE Append(f[m], json(m + 1))
               g == [k \in 0 .. (m + 1) |-> IF k = m + 1 THEN last ELSE f[k]]
    <3>2. m \in Nat
      OBVIOUS
    <3>3. ASSUME NEW k \in 0 .. (m + 1)
          PROVE  g[k] = step(g, m + 1)[k]
      <4>1. CASE k = 0
        <5>1. f[0] = <<>>
          BY <3>1, <3>2
        <5> QED
          BY <4>1, <5>1, <3>2
      <4>2. CASE k \in 1 .. m
        <5>1. g[k] = f[k] /\ g[k - 1] = f[k - 1]
          BY <4>2, <3>2
        <5>2. f[k] = step(f, m)[k]
          BY <3>1, Zenon
        <5>3. k \in 0 .. m /\ k # 0
          BY <4>2, <3>2
        <5>4. f[k] = IF hidden(k) THEN f[k - 1] ELSE Append(f[k - 1], json(k))
          BY <5>2, <5>3
        <5> QED
          BY <5>1, <5>3, <5>4, <3>2
      <4>3. CASE k = m + 1
        <5>1. g[k] = last /\ g[k - 1] = f[m]
          BY <4>3, <3>2
        <5> QED
          BY <4>3, <5>1, <3>2
      <4> QED
        BY <4>1, <4>2, <4>3, <3>2
    <3>4. g = step(g, m + 1)
      BY <3>3
    <3>5. \E h : h = step(h, m + 1)
      <4> HIDE DEF g, step
      <4> QED
        BY <3>4
    <3> HIDE DEF step
    <3> QED
      BY <3>2, <3>5
  <2>3. n \in M
    <3> HIDE DEF M
    <3>1. M \in SUBSET Nat
      BY DEF M
    <3> QED
      BY <1>1, <2>1, <2>2, <3>1, Counting
  <2> QED
    BY <2>3
<1> HIDE DEF jsonified
<1> DEFINE Jsons == {json(k) : k \in Nat}
           Upto(m) == {json(k) : k \in {k \in 1 .. m : ~hidden(k)}}
           Values(seq) == {seq[k] : k \in DOMAIN seq}
           Right(m) == jsonified[m] \in Seq(Jsons) /\ Values(jsonified[m]) = Upto(m)
<1>4. Right(n)
  <2> DEFINE M == {m \in Nat : m <= n => Right(m)}
  <2>1. 0 \in M
    <3>1. jsonified[0] = <<>>
      BY <1>1, <1>3
    <3>2. <<>> \in Seq(Jsons) /\ Values(<<>>) = {} /\ Upto(0) = {}
      OBVIOUS
    <3>3. Right(0)
      <4> HIDE DEF Values, Upto, Jsons
      <4> QED
        BY <3>1, <3>2
    <3> HIDE DEF Right
    <3> QED
      BY <3>3
  <2>2. ASSUME NEW m \in M PROVE m + 1 \in M
    <3> SUFFICES ASSUME m + 1 <= n PROVE Right(m + 1)
      <4> HIDE DEF Right
      <4> QED
        OBVIOUS
    <3>1. m \in Nat /\ Right(m)
      <4> HIDE DEF Right
      <4> QED
        BY <1>1
    <3>2. jsonified[m + 1] = IF hidden(m + 1) THEN jsonified[m]
                             ELSE Append(jsonified[m], json(m + 1))
      <4>1. m + 1 \in 0 .. n /\ m + 1 # 0 /\ (m + 1) - 1 = m
        BY <1>1, <3>1
      <4>2. jsonified[m + 1] = step(jsonified, n)[m + 1]
        BY <1>3, Zenon
      <4> QED
        BY <4>1, <4>2
    <3>3. 1 .. (m + 1) = (1 .. m) \cup {m + 1}
      BY <3>1
    <3>4. CASE hidden(m + 1)
      <4>1. Upto(m + 1) = Upto(m)
        BY <3>3, <3>4
      <4> QED
        BY <3>1, <3>2, <3>4, <4>1
    <3>5. CASE ~hidden(m + 1)
      <4>1. Upto(m + 1) = Upto(m) \cup {json(m + 1)}
        BY <3>3, <3>5
      <4>2. json(m + 1) \in Jsons
        BY <3>1
      <4>3. ASSUME NEW seq \in Seq(Jsons), NEW elt \in Jsons
            PROVE  /\ Append(seq, elt) \in Seq(Jsons)
                   /\ Values(Append(seq, elt)) = Values(seq) \cup {elt}
        <5> HIDE DEF Jsons
        <5>1. /\ Append(seq, elt) \in Seq(Jsons)
              /\ DOMAIN Append(seq, elt) = DOMAIN seq \cup {Len(seq) + 1}
              /\ \A k \in DOMAIN seq : Append(seq, elt)[k] = seq[k]
              /\ Append(seq, elt)[Len(seq) + 1] = elt
          OBVIOUS
        <5> QED
          BY <5>1
      <4> HIDE DEF Jsons, Upto, Values
      <4>4. Right(m + 1)
        BY <3>1, <3>2, <3>5, <4>1, <4>2, <4>3
      <4> QED
        BY <4>4
    <3> QED
      BY <3>4, <3>5
  <2>3. n \in M
    <3> HIDE DEF M
    <3>1. M \in SUBSET Nat
      BY DEF M
    <3> QED
      BY <1>1, <2>1, <2>2, <3>1, Counting
  <2> HIDE DEF Right
  <2> QED
    BY <1>1, <2>3
<1>5. /\ \A j \in DOMAIN listed : listed[j] \in Upto(n)
      /\ \A value \in Upto(n) : \E j \in DOMAIN listed : value = listed[j]
  <2>1. Values(listed) = Upto(n)
    BY <1>2, <1>4
  <2> HIDE DEF Upto
  <2> QED
    BY <2>1
<1> QED
  BY <1>1, <1>5 DEF hidden, json, Lists

-----------------------------------------------------------------------------
\* A server started from the files.

\* What a browser sends for a user of the table passes the check of the password.
LEMMA BrowserKnown ==
  ASSUME NEW table, NEW user \in DOMAIN table, user # Nobody
  PROVE  GetAuth(table, Browser(user)) = {user}
<1>1. /\ Browser(user) # <<>>
      /\ Browser(user)[1]
           = [username |-> user, fields |-> AllParameters, right |-> TRUE]
  BY DEF Browser
<1>2. IsValid(Browser(user)[1])
  BY <1>1 DEF IsValid, AllParameters, Required
<1>3. Checked(table, Browser(user))
  BY <1>1, <1>2 DEF Checked, ParseDigestAuthField, AllParameters
<1> QED
  BY <1>1, <1>3 DEF GetAuth

\* Permissions that are enough.
Within(permissions, needed) == ~(Rank[permissions] < Rank[needed])

\* handle_request refuses whom an endpoint is not for, before anything else.
LEMMA SuccessGranted ==
  ASSUME NEW table, NEW maps, NEW method, NEW header, NEW S, NEW target \in Seq(S),
         HandleRequest(table, maps,
                       [method |-> method, target |-> target, header |-> header]).status = 200
  PROVE  target[1] \in DOMAIN EndpointMap =>
           /\ GetAuth(table, header) # {}
           /\ Within(table[header[1].username].permissions, EndpointMap[target[1]])
<1> DEFINE request == [method |-> method, target |-> target, header |-> header]
<1>1. \A code \in {400, 401, 403} : Refusal(code).status # 200
  BY DEF Refusal
<1>2. request.target = target /\ request.header = header
  OBVIOUS
<1>3. HandleRequest(table, maps, request).status = 200
  OBVIOUS
<1> HIDE DEF request
<1>4. ~Illegal(request) /\ ~Unidentified(table, request) /\ ~Forbidden(table, request)
  BY <1>1, <1>3 DEF HandleRequest
<1>5. ASSUME target[1] \in DOMAIN EndpointMap
      PROVE  /\ GetEndpointPermissions(target) = EndpointMap[target[1]]
             /\ GetEndpointPermissions(target) # Nothing
  <2>1. target # <<>>
    BY <1>2, <1>4 DEF Illegal
  <2> QED
    BY <1>5, <2>1, EndpointOfFirstPiece DEF EndpointMap, Nothing
<1> QED
  BY <1>2, <1>4, <1>5 DEF Unidentified, Forbidden, PermissionsOf, Within

\* Editing goes on as before, whatever servers are started meanwhile.
LEMMA AccessInvariance == AccessSpec => []IInv
<1>1. AccessInit => IInv
  BY InitIInv DEF AccessInit
<1>2. IInv /\ [AccessNext]_accessVars => IInv'
  <2>1. [AccessNext]_accessVars => [Next]_vars
    BY DEF AccessNext, StartServer, StopServer, accessVars
  <2> QED
    BY <2>1, NextIInv
<1> QED
  BY <1>1, <1>2, PTL DEF AccessSpec

\* What a server that is started goes by.
LEMMA StartedWith ==
  ASSUME IInv, NEW p \in Paths, NEW k \in DOMAIN Documents,
         StartServer(p, Documents[k])
  PROVE  /\ server'[1].auth_table = Load(disk[p])
         /\ server'[1].maps = Parse(Documents[k])
         /\ Table(Load(disk[p])) /\ Nobody \notin DOMAIN Load(disk[p])
         /\ ValidateConfig(Documents[k])
         /\ Parse(Documents[k]) \in Seq({MapEntry(entry) : entry \in
                                           {Documents[k].value[j] :
                                              j \in DOMAIN Documents[k].value}})
<1>1. ValidateConfig(Documents[k]) /\ OpenFromFile(Documents[k]) = <<Parse(Documents[k])>>
  BY DEF StartServer, OpenFromFile
<1>2. server' = <<[auth_table |-> Load(disk[p]), maps |-> Parse(Documents[k])]>>
  BY <1>1 DEF StartServer
<1>3. Table(Load(disk[p]))
  BY LoadTable DEF IInv, TypeOK
<1>4. Nobody \notin DOMAIN Load(disk[p])
  BY <1>3, AccessAssumption DEF Table
<1>5. Parse(Documents[k]) \in Seq({MapEntry(entry) : entry \in
                                     {Documents[k].value[j] :
                                        j \in DOMAIN Documents[k].value}})
  <2> DEFINE value == Documents[k].value
             n == Len(value)
             S == {MapEntry(entry) : entry \in {value[j] : j \in DOMAIN value}}
  <2>1. n \in Nat /\ DOMAIN value = 1 .. n
    BY <1>1, AccessAssumption DEF ValidateConfig
  <2>2. Parse(Documents[k]) = [j \in 1 .. n |-> MapEntry(value[j])]
    BY <2>1 DEF Parse
  <2>3. \A j \in 1 .. n : MapEntry(value[j]) \in S
    BY <2>1
  <2> HIDE DEF n, S
  <2> QED
    BY <2>1, <2>2, <2>3 DEF S
<1> QED
  BY <1>1, <1>2, <1>3, <1>4, <1>5

LEMMA StartStep ==
  ASSUME AccessNext, Started
  PROVE  \E p \in Paths, k \in DOMAIN Documents : StartServer(p, Documents[k])
BY DEF AccessNext, Started, StopServer

\* Permissions have an order.
LEMMA Ranked ==
  ASSUME NEW permissions \in AuthorizationType
  PROVE  /\ Within(permissions, "View") <=> permissions \in {"View", "Control"}
         /\ Within(permissions, "Control") <=> permissions = "Control"
BY DEF Within, Rank, AuthorizationType

\* The loop of Resolved, from one piece of a path to the next.
LEMMA Resolving ==
  ASSUME NEW S, NEW way \in Seq(S)
  PROVE  \E resolved :
           /\ Resolved(way) = resolved[Len(way)] /\ resolved[0] = <<>>
           /\ \A k \in 1 .. Len(way) :
                resolved[k] = IF way[k] \in Here THEN resolved[k - 1]
                              ELSE Append(resolved[k - 1], way[k])
<1> DEFINE n == Len(way)
           here(k) == way[k] \in Here
           piece(k) == way[k]
           step(f, m) == [k \in 0 .. m |->
                            IF k = 0 THEN <<>>
                            ELSE IF here(k) THEN f[k - 1]
                            ELSE Append(f[k - 1], piece(k))]
           resolved == CHOOSE f : f = step(f, n)
<1>1. n \in Nat
  OBVIOUS
<1>2. Resolved(way) = resolved[n]
  BY DEF Resolved
<1> HIDE DEF n, here, piece
<1>3. resolved = step(resolved, n)
  <2> DEFINE M == {m \in Nat : \E f : f = step(f, m)}
  <2>1. 0 \in M
    <3> DEFINE f == [k \in 0 .. 0 |-> <<>>]
    <3>1. f = step(f, 0)
      OBVIOUS
    <3> QED
      BY <3>1
  <2>2. ASSUME NEW m \in M PROVE m + 1 \in M
    <3>1. PICK f : f = step(f, m)
      OBVIOUS
    <3> DEFINE last == IF here(m + 1) THEN f[m] ELSE Append(f[m], piece(m + 1))
               g == [k \in 0 .. (m + 1) |-> IF k = m + 1 THEN last ELSE f[k]]
    <3>2. m \in Nat
      OBVIOUS
    <3>3. ASSUME NEW k \in 0 .. (m + 1)
          PROVE  g[k] = step(g, m + 1)[k]
      <4>1. CASE k = 0
        <5>1. f[0] = <<>>
          BY <3>1, <3>2
        <5> QED
          BY <4>1, <5>1, <3>2
      <4>2. CASE k \in 1 .. m
        <5>1. g[k] = f[k] /\ g[k - 1] = f[k - 1]
          BY <4>2, <3>2
        <5>2. f[k] = step(f, m)[k]
          BY <3>1, Zenon
        <5>3. k \in 0 .. m /\ k # 0
          BY <4>2, <3>2
        <5>4. f[k] = IF here(k) THEN f[k - 1] ELSE Append(f[k - 1], piece(k))
          BY <5>2, <5>3
        <5> QED
          BY <5>1, <5>3, <5>4, <3>2
      <4>3. CASE k = m + 1
        <5>1. g[k] = last /\ g[k - 1] = f[m]
          BY <4>3, <3>2
        <5> QED
          BY <4>3, <5>1, <3>2
      <4> QED
        BY <4>1, <4>2, <4>3, <3>2
    <3>4. g = step(g, m + 1)
      BY <3>3
    <3>5. \E h : h = step(h, m + 1)
      <4> HIDE DEF g, step
      <4> QED
        BY <3>4
    <3> HIDE DEF step
    <3> QED
      BY <3>2, <3>5
  <2>3. n \in M
    <3> HIDE DEF M
    <3>1. M \in SUBSET Nat
      BY DEF M
    <3> QED
      BY <1>1, <2>1, <2>2, <3>1, Counting
  <2> QED
    BY <2>3
<1> HIDE DEF resolved
<1>4. resolved[0] = <<>>
  BY <1>1, <1>3
<1>5. ASSUME NEW k \in 1 .. n
      PROVE  resolved[k] = IF here(k) THEN resolved[k - 1]
                           ELSE Append(resolved[k - 1], piece(k))
  <2>1. resolved[k] = step(resolved, n)[k]
    BY <1>3, Zenon
  <2>2. k \in 0 .. n /\ k # 0
    BY <1>1
  <2> QED
    BY <2>1, <2>2
<1> QED
  BY <1>2, <1>4, <1>5 DEF here, piece, n

\* A path whose first piece leads somewhere leads below that piece.
LEMMA FirstKept ==
  ASSUME NEW S, NEW way \in Seq(S), way # <<>>, way[1] \notin Here
  PROVE  /\ Resolved(way)[1] = way[1]
         /\ Len(way) = 1 => Resolved(way) = <<way[1]>>
<1>1. PICK resolved :
        /\ Resolved(way) = resolved[Len(way)] /\ resolved[0] = <<>>
        /\ \A k \in 1 .. Len(way) :
             resolved[k] = IF way[k] \in Here THEN resolved[k - 1]
                           ELSE Append(resolved[k - 1], way[k])
  BY Resolving
<1>2. Len(way) \in Nat /\ Len(way) >= 1 /\ \A k \in 1 .. Len(way) : way[k] \in S
  OBVIOUS
<1>3. resolved[1] = <<way[1]>>
  <2>1. 1 \in 1 .. Len(way) /\ 1 - 1 = 0
    BY <1>2
  <2>2. resolved[1] = Append(resolved[0], way[1])
    BY <1>1, <2>1
  <2> QED
    BY <1>1, <2>2
<1> DEFINE Starts(k) == /\ resolved[k] \in Seq(S) /\ resolved[k] # <<>>
                        /\ resolved[k][1] = way[1]
           N == {n \in Nat : n + 1 <= Len(way) => Starts(n + 1)}
<1>4. 0 \in N
  <2>1. Starts(1) /\ 0 + 1 = 1
    BY <1>2, <1>3
  <2> HIDE DEF Starts
  <2> QED
    BY <2>1
<1>5. ASSUME NEW n \in N PROVE n + 1 \in N
  <2> SUFFICES ASSUME (n + 1) + 1 <= Len(way) PROVE Starts((n + 1) + 1)
    OBVIOUS
  <2>1. n \in Nat /\ Starts(n + 1)
    BY <1>2
  <2> DEFINE k == (n + 1) + 1
  <2>2. k \in 1 .. Len(way) /\ k - 1 = n + 1
    BY <1>2, <2>1
  <2>3. resolved[k] = IF way[k] \in Here THEN resolved[n + 1]
                      ELSE Append(resolved[n + 1], way[k])
    BY <1>1, <2>2
  <2>4. way[k] \in S
    BY <1>2, <2>2
  <2> HIDE DEF k
  <2>5. Starts(k)
    BY <2>1, <2>3, <2>4
  <2> QED
    BY <2>5 DEF k
<1>6. Starts(Len(way))
  <2>1. Len(way) - 1 \in N
    <3> HIDE DEF N
    <3>1. N \in SUBSET Nat
      BY DEF N
    <3>2. N = Nat
      BY <1>4, <1>5, <3>1, Counting
    <3> QED
      BY <1>2, <3>2
  <2>2. (Len(way) - 1) + 1 = Len(way)
    BY <1>2
  <2> QED
    BY <1>2, <2>1, <2>2
<1> QED
  BY <1>1, <1>3, <1>6

Empty(piece) == piece = ""

\* What is found by a plain target is below the target's first piece, or at the top.
LEMMA PlainFile ==
  ASSUME NEW S, NEW target \in Seq(S), target # <<>>, Plain(target)
  PROVE  FileOf(target)[1] \in {target[1], "index.html"}
<1> DEFINE way == PathOf(target)
<1>1. /\ \A k \in DOMAIN target :
           target[k] \in Here => Empty(target[k]) /\ k = Len(target)
      /\ "index.html" \notin Here
      /\ \/ Empty(Last(target)) /\ way = Append(Front(target), "index.html")
         \/ ~Empty(Last(target)) /\ way \in {target, Append(target, "index.html")}
  BY Zenon DEF Plain, Here, Empty, PathOf
<1>2. /\ Len(target) \in Nat /\ Len(target) >= 1 /\ DOMAIN target = 1 .. Len(target)
      /\ Last(target) = target[Len(target)]
      /\ Front(target) = SubSeq(target, 1, Len(target) - 1)
  BY DEF Last, Front
<1> DEFINE Pieces == S \cup {"index.html"}
<1>3. target \in Seq(Pieces)
  <2>1. S \subseteq Pieces
    OBVIOUS
  <2> HIDE DEF Pieces
  <2> QED
    BY <2>1, SeqMonotonic
<1>4. "index.html" \in Pieces
  OBVIOUS
<1> HIDE DEF Pieces, way
<1>5. /\ way \in Seq(Pieces) /\ way # <<>>
      /\ way[1] \notin Here /\ way[1] \in {target[1], "index.html"}
  <2>1. CASE Empty(Last(target)) /\ way = Append(Front(target), "index.html")
    <3> DEFINE front == Front(target)
    <3>1. /\ front \in Seq(Pieces) /\ Len(front) = Len(target) - 1
          /\ Len(target) > 1 => front[1] = target[1]
      BY <1>2, <1>3
    <3>2. way = Append(front, "index.html")
      BY <2>1
    <3> HIDE DEF front
    <3>3. CASE Len(target) = 1
      <4>1. front = <<>>
        BY <3>1, <3>3
      <4>2. way[1] = "index.html"
        BY <3>2, <4>1
      <4> QED
        BY <1>1, <1>4, <3>1, <3>2, <4>2
    <3>4. CASE Len(target) > 1
      <4>1. way[1] = target[1] /\ way \in Seq(Pieces) /\ way # <<>>
        BY <1>4, <3>1, <3>2, <3>4
      <4>2. 1 \in DOMAIN target /\ 1 # Len(target)
        BY <1>2, <3>4
      <4> QED
        BY <1>1, <4>1, <4>2
    <3> QED
      BY <1>2, <3>3, <3>4
  <2>2. CASE ~Empty(Last(target)) /\ way \in {target, Append(target, "index.html")}
    <3>1. way \in Seq(Pieces) /\ way # <<>> /\ way[1] = target[1]
      BY <1>2, <1>3, <1>4, <2>2
    <3>2. target[1] \notin Here
      <4>1. 1 \in DOMAIN target
        BY <1>2
      <4> QED
        BY <1>1, <1>2, <2>2, <4>1
    <3> QED
      BY <3>1, <3>2
  <2> QED
    BY <1>1, <2>1, <2>2
<1>6. Resolved(way)[1] = way[1]
  BY <1>5, FirstKept
<1> QED
  BY <1>5, <1>6 DEF FileOf, way

\* No method or Authorization field gets past the endpoints' permissions
\* (handle_request), whatever was in the auth-file: not to the maps and their images,
\* however they are asked for, and not to what plain targets find in view and
\* control.
THEOREM NobodySlipsIn == AccessSpec => GrantedOrRefused
<1> DEFINE Refused ==
       /\ \A user \in DOMAIN server'[1].auth_table \cup {Nobody},
             target \in Targets \ {<<>>} :
            LET granted == IF user = Nobody THEN "none"
                           ELSE server'[1].auth_table[user].permissions
            IN  ~MayHave(granted, target) =>
                  \A method \in {"get", "head"} :
                    Answer(method, target, user).status # 200
       /\ \A user \in DOMAIN server'[1].auth_table, right \in BOOLEAN, fields \in Parameters :
            LET header == [username |-> user, fields |-> fields, right |-> right]
            IN  /\ ~CheckThrows(server'[1].auth_table, <<header>>)
                /\ GetAuth(server'[1].auth_table, <<header>>) # {} =>
                     right /\ fields = AllParameters
<1>1. ASSUME IInv, AccessNext, Started PROVE Refused
  <2>1. PICK p \in Paths, k \in DOMAIN Documents : StartServer(p, Documents[k])
    BY <1>1, StartStep
  <2> DEFINE table == server'[1].auth_table
             maps == server'[1].maps
  <2>2. Table(table)
    BY <1>1, <2>1, StartedWith
  <2>3. ASSUME NEW user \in DOMAIN table \cup {Nobody}, NEW method \in {"get", "head"},
               NEW target \in Targets \ {<<>>}, Answer(method, target, user).status = 200
        PROVE  MayHave(IF user = Nobody THEN "none" ELSE table[user].permissions, target)
    <3> DEFINE request == [method |-> method, target |-> target, header |-> Browser(user)]
               granted == IF user = Nobody THEN "none" ELSE table[user].permissions
    <3>1. HandleRequest(table, maps, request).status = 200
      BY <2>3 DEF Answer
    <3>2. target \in Seq(ToSet(target)) /\ target # <<>>
      BY AccessAssumption
    <3>3. target[1] \in DOMAIN EndpointMap =>
            /\ GetAuth(table, Browser(user)) # {}
            /\ Within(table[Browser(user)[1].username].permissions, EndpointMap[target[1]])
      BY <3>1, <3>2, SuccessGranted
    <3>4. /\ target[1] \in {"view", "config", "maps"} => granted \in {"View", "Control"}
          /\ target[1] = "control" => granted = "Control"
      <4>1. CASE user = Nobody
        <5>1. GetAuth(table, Browser(user)) = {}
          BY <4>1 DEF GetAuth, Checked, ParseDigestAuthField, Browser
        <5> QED
          BY <3>3, <5>1 DEF EndpointMap
      <4>2. CASE user # Nobody
        <5>1. Browser(user)[1].username = user
          BY <4>2 DEF Browser
        <5>2. table[user].permissions \in AuthorizationType
          BY <2>2, <4>2 DEF Table, AuthData
        <5> QED
          BY <3>3, <4>2, <5>1, <5>2, Ranked DEF EndpointMap
      <4> QED
        BY <4>1, <4>2
    <3> HIDE DEF granted
    <3>5. MapData(target) => target[1] \in {"config", "maps"}
      BY DEF MapData, IsTargetSingleLevel, TargetStartsWithSegment
    <3>6. Plain(target) => FileOf(target)[1] \in {target[1], "index.html"}
      BY <3>2, PlainFile
    <3>7. MayHave(granted, target)
      BY <3>4, <3>5, <3>6 DEF MayHave
    <3> QED
      BY <3>7 DEF granted
  <2>4. ASSUME NEW user \in DOMAIN table, NEW right \in BOOLEAN, NEW fields \in Parameters
        PROVE  LET header == [username |-> user, fields |-> fields, right |-> right]
               IN  /\ ~CheckThrows(table, <<header>>)
                   /\ GetAuth(table, <<header>>) # {} => right /\ fields = AllParameters
    <3> DEFINE header == [username |-> user, fields |-> fields, right |-> right]
    <3>1. ASSUME Checked(table, <<header>>)
          PROVE  fields = AllParameters
      <4>1. IsValid(header) /\ {"qop", "opaque"} \subseteq fields
        BY <3>1 DEF Checked, ParseDigestAuthField
      <4>2. Required \subseteq fields /\ {"cnonce", "nc"} \subseteq fields
        BY <4>1 DEF IsValid
      <4>3. fields \subseteq AllParameters
        BY AccessAssumption
      <4> QED
        BY <4>1, <4>2, <4>3 DEF AllParameters
    <3>2. ~CheckThrows(table, <<header>>)
      BY <3>1 DEF CheckThrows, AllParameters
    <3>3. GetAuth(table, <<header>>) # {} => right /\ fields = AllParameters
      BY <3>1 DEF GetAuth
    <3> QED
      BY <3>2, <3>3
  <2> QED
    BY <2>3, <2>4
<1>2. IInv /\ [AccessNext]_accessVars => [Started => Refused]_accessVars
  BY <1>1
<1> QED
  BY <1>2, AccessInvariance, PTL DEF AccessSpec, GrantedOrRefused

\* A user whose browser is challenged once is refused for lack of permissions only.
LEMMA OnlyForbidden ==
  ASSUME NEW table, NEW user \in DOMAIN table, user # Nobody, NEW request,
         request.method = "get", request.header = Browser(user),
         NEW S, request.target \in Seq(S), request.target # <<>>,
         \A k \in DOMAIN request.target : request.target[k] # ".."
  PROVE  /\ ~Illegal(request) /\ ~Unidentified(table, request)
         /\ Forbidden(table, request) <=>
              /\ request.target[1] \in DOMAIN EndpointMap
              /\ ~Within(table[user].permissions, EndpointMap[request.target[1]])
<1>1. ~Illegal(request)
  BY DEF Illegal
<1>2. ~Unidentified(table, request)
  <2>1. GetAuth(table, request.header) = {user}
    BY BrowserKnown
  <2> QED
    BY <2>1 DEF Unidentified
<1>3. PermissionsOf(table, request) = table[user].permissions
  BY DEF PermissionsOf, Browser
<1>4. Forbidden(table, request) <=>
        /\ request.target[1] \in DOMAIN EndpointMap
        /\ ~Within(table[user].permissions, EndpointMap[request.target[1]])
  <2>1. request.target[1] \in DOMAIN EndpointMap =>
          EndpointMap[request.target[1]] # Nothing
    BY DEF EndpointMap, Nothing
  <2> QED
    BY <1>3, <2>1, EndpointOfFirstPiece DEF Forbidden, Within
<1> QED
  BY <1>1, <1>2, <1>4

\* A target of one piece.
LEMMA OnePiece ==
  ASSUME NEW piece
  PROVE  /\ <<piece>> \in Seq({piece}) /\ <<piece>> # <<>>
         /\ <<piece>>[1] = piece /\ Len(<<piece>>) = 1
         /\ \A k \in DOMAIN <<piece>> : <<piece>>[k] = piece
<1>1. DOMAIN <<piece>> = {1}
  OBVIOUS
<1> QED
  BY <1>1

\* The answer to /config.
LEMMA ConfigAnswer ==
  ASSUME NEW table, Table(table), NEW user \in DOMAIN table, user # Nobody, NEW maps
  PROVE  HandleRequest(table, maps, [method |-> "get", target |-> <<"config">>,
                                     header |-> Browser(user)])
           = IF table[user].permissions = "Blocked" THEN Refusal(403)
             ELSE [status |-> 200,
                   body |-> GetMapsForClient(maps, table[user].permissions,
                                             GroupsIn[table[user].map_groups])]
<1> DEFINE request == [method |-> "get", target |-> <<"config">>, header |-> Browser(user)]
<1>1. /\ request.method = "get" /\ request.header = Browser(user)
      /\ request.target = <<"config">>
  OBVIOUS
<1> HIDE DEF request
<1>2. /\ ~Illegal(request) /\ ~Unidentified(table, request)
      /\ Forbidden(table, request) <=> ~Within(table[user].permissions, "View")
  <2>1. /\ request.target \in Seq({"config"}) /\ request.target # <<>>
        /\ \A k \in DOMAIN request.target : request.target[k] # ".."
        /\ request.target[1] = "config"
    BY <1>1, OnePiece
  <2>2. "config" \in DOMAIN EndpointMap /\ EndpointMap["config"] = "View"
    BY DEF EndpointMap
  <2> QED
    BY <1>1, <2>1, <2>2, OnlyForbidden
<1>3. table[user].permissions \in AuthorizationType
  BY DEF Table, AuthData
<1>4. Forbidden(table, request) <=> table[user].permissions = "Blocked"
  BY <1>2, <1>3, Ranked DEF AuthorizationType
<1>5. IsTargetSingleLevel(request.target, "config")
  BY <1>1 DEF IsTargetSingleLevel, Last
<1>6. ServeConfig(table, maps, request)
        = [status |-> 200,
           body |-> GetMapsForClient(maps, table[user].permissions,
                                     GroupsIn[table[user].map_groups])]
  <2>1. request.header[1].username = user
    BY <1>1 DEF Browser
  <2> QED
    BY <1>1, <2>1 DEF ServeConfig, Success
<1>7. HandleRequest(table, maps, request)
        = IF table[user].permissions = "Blocked" THEN Refusal(403)
          ELSE ServeConfig(table, maps, request)
  BY <1>2, <1>4, <1>5 DEF HandleRequest
<1> QED
  BY <1>6, <1>7 DEF request

\* The users whom a server lets in and the maps it lists for them are those of the
\* configurator's table: the auth-file is written, read and applied without a change
\* of anybody's permissions or groups.
THEOREM ServedAsEdited == AccessSpec => StartedAsEdited
<1> DEFINE Edited(p) ==
      /\ Started /\ saved[p] # <<>>
      /\ \E k \in DOMAIN Documents : StartServer(p, Documents[k])
      =>
        LET table == saved[p][1]
            known == DOMAIN server'[1].auth_table
        IN  /\ known \subseteq DOMAIN table
            /\ complete[p] => known = DOMAIN table
            /\ \A login \in known :
                 LET answer == Get(<<"config">>, login)
                 IN  IF table[login].permissions = "Blocked" THEN answer.status = 403
                     ELSE {answer.body[k].id : k \in DOMAIN answer.body}
                            = {map.id : map \in Shown(table[login])}
<1>1. ASSUME IInv, NEW p \in Paths, saved[p] # <<>>,
             NEW k \in DOMAIN Documents, StartServer(p, Documents[k])
      PROVE  Edited(p)
  <2> DEFINE table == saved[p][1]
             read == server'[1].auth_table
             maps == server'[1].maps
  <2>1. /\ read = Load(disk[p]) /\ Table(read) /\ Nobody \notin DOMAIN read
        /\ \E S : maps \in Seq(S)
    BY <1>1, StartedWith
  <2>2. /\ DOMAIN read \subseteq DOMAIN table
        /\ \A login \in DOMAIN read :
             /\ read[login].permissions = table[login].permissions
             /\ read[login].map_groups = table[login].map_groups
        /\ complete[p] => DOMAIN read = DOMAIN table
    <3>1. /\ DOMAIN read \subseteq DOMAIN table
          /\ \A login \in DOMAIN read :
               \/ read[login] = table[login]
               \/ read[login] \in Shortened(table[login])
          /\ complete[p] => DOMAIN read = DOMAIN table
      <4>1. /\ Preserved(disk[p], table)
            /\ complete[p] => read = table
        BY <1>1, <2>1 DEF IInv, SavedAsEdited
      <4> HIDE DEF table, read
      <4> QED
        BY <2>1, <4>1, Zenon DEF Preserved
    <3>2. \A login \in DOMAIN table : table[login] \in AuthData
      BY <1>1 DEF IInv, TypeOK, Optional, Table
    <3>3. \A login \in DOMAIN read :
            {"permissions", "map_groups"} \subseteq DOMAIN table[login]
      BY <3>1, <3>2 DEF AuthData
    <3>4. ASSUME NEW entry, {"permissions", "map_groups"} \subseteq DOMAIN entry,
                 NEW other \in Shortened(entry)
          PROVE  /\ other.permissions = entry.permissions
                 /\ other.map_groups = entry.map_groups
      BY <3>4 DEF Shortened
    <3> HIDE DEF table, read
    <3> QED
      BY <3>1, <3>3, <3>4
  <2>3. ASSUME NEW login \in DOMAIN read
        PROVE  LET answer == Get(<<"config">>, login)
               IN  IF table[login].permissions = "Blocked" THEN answer.status = 403
                   ELSE {answer.body[j].id : j \in DOMAIN answer.body}
                          = {map.id : map \in Shown(table[login])}
    <3> DEFINE user == read[login]
               groups == GroupsIn[user.map_groups]
               listed == GetMapsForClient(maps, user.permissions, groups)
    <3>1. Get(<<"config">>, login)
            = IF user.permissions = "Blocked" THEN Refusal(403)
              ELSE [status |-> 200, body |-> listed]
      BY <2>1, ConfigAnswer DEF Get, Answer
    <3>2. /\ user.permissions = table[login].permissions
          /\ user.map_groups = table[login].map_groups
      BY <2>2
    <3>3. CASE user.permissions = "Blocked"
      BY <3>1, <3>2, <3>3 DEF Refusal
    <3>4. CASE user.permissions # "Blocked"
      <4>1. Get(<<"config">>, login).body = listed
        BY <3>1, <3>4
      <4>2. Lists(listed, maps, user.permissions, groups)
        <5>1. PICK S : maps \in Seq(S)
          BY <2>1
        <5> HIDE DEF maps, user, groups
        <5> QED
          BY <5>1, ClientMaps, Zenon
      <4>3. Shown(table[login])
              = {maps[j] : j \in {j \in DOMAIN maps : ~Hidden(maps[j], user.permissions, groups)}}
        BY <3>2 DEF Shown, Maps, Hidden
      <4>4. {listed[j].id : j \in DOMAIN listed} = {map.id : map \in Shown(table[login])}
        <5> HIDE DEF listed, maps, user, groups, table
        <5>1. \A map : ToClientJson(map).id = map.id
          BY DEF ToClientJson
        <5> QED
          BY <4>2, <4>3, <5>1 DEF Lists
      <4> HIDE DEF listed, user
      <4> QED
        BY <3>2, <3>4, <4>1, <4>4
    <3> QED
      BY <3>3, <3>4
  <2> QED
    BY <2>2, <2>3
<1>2. IInv /\ [AccessNext]_accessVars => [\A p \in Paths : Edited(p)]_accessVars
  <2> HIDE DEF Edited
  <2>1. ASSUME IInv, NEW p \in Paths PROVE Edited(p)
    <3>1. CASE /\ saved[p] # <<>>
               /\ \E k \in DOMAIN Documents : StartServer(p, Documents[k])
      BY <1>1, <2>1, <3>1
    <3>2. CASE ~(/\ saved[p] # <<>>
                 /\ \E k \in DOMAIN Documents : StartServer(p, Documents[k]))
      BY <3>2 DEF Edited
    <3> QED
      BY <3>1, <3>2
  <2> QED
    BY <2>1
<1> QED
  BY <1>2, AccessInvariance, PTL DEF AccessSpec, StartedAsEdited

\* The styles are for everybody.
LEMMA StylesAnswer ==
  ASSUME <<"styles.css">> \in DocRoot,
         NEW table, NEW user \in DOMAIN table, user # Nobody, NEW maps
  PROVE  HandleRequest(table, maps, [method |-> "get", target |-> <<"styles.css">>,
                                     header |-> Browser(user)]).status = 200
<1> DEFINE request == [method |-> "get", target |-> <<"styles.css">>,
                       header |-> Browser(user)]
<1>1. /\ request.method = "get" /\ request.header = Browser(user)
      /\ request.target = <<"styles.css">>
  OBVIOUS
<1> HIDE DEF request
<1>2. /\ request.target \in Seq({"styles.css"}) /\ request.target # <<>>
      /\ \A k \in DOMAIN request.target : request.target[k] # ".."
      /\ request.target[1] = "styles.css" /\ Len(request.target) = 1
  BY <1>1, OnePiece
<1>3. ~Illegal(request) /\ ~Unidentified(table, request) /\ ~Forbidden(table, request)
  <2>1. "styles.css" \notin DOMAIN EndpointMap
    BY DEF EndpointMap
  <2> QED
    BY <1>1, <1>2, <2>1, OnlyForbidden
<1>4. HandleRequest(table, maps, request) = ServeFile(request)
  BY <1>2, <1>3 DEF HandleRequest, IsTargetSingleLevel, TargetStartsWithSegment
<1>5. /\ PathOf(request.target) = request.target
      /\ Last(PathOf(request.target)) # "."
      /\ request.target[1] \notin Here
  <2>1. Last(request.target) = "styles.css"
    BY <1>2 DEF Last
  <2>2. request.target # <<"view">> /\ request.target # <<"control">>
    BY <1>2
  <2> QED
    BY <1>2, <2>1, <2>2, Zenon DEF PathOf, Here
<1>6. FileOf(request.target) = <<"styles.css">>
  <2> DEFINE target == request.target
  <2>1. target \in Seq({"styles.css"}) /\ target # <<>> /\ target[1] \notin Here
    BY <1>2, <1>5
  <2> HIDE DEF target
  <2>2. Len(target) = 1 => Resolved(target) = <<target[1]>>
    BY <2>1, FirstKept
  <2> QED
    BY <1>2, <1>5, <2>2 DEF FileOf, target
<1>7. ServeFile(request).status = 200
  BY <1>5, <1>6 DEF ServeFile, Success
<1> QED
  BY <1>4, <1>7 DEF request

\* A target of one piece and more.
LEMMA Prefixed ==
  ASSUME NEW S, NEW piece \in S, NEW rest \in Seq(S)
  PROVE  LET target == <<piece>> \o rest
         IN  /\ target \in Seq(S) /\ target # <<>>
             /\ target[1] = piece /\ Tail(target) = rest
             /\ \A k \in DOMAIN target :
                  target[k] = piece \/ \E l \in DOMAIN rest : target[k] = rest[l]
<1> DEFINE target == <<piece>> \o rest
<1>1. <<piece>> \in Seq(S) /\ Len(<<piece>>) = 1 /\ <<piece>>[1] = piece
  OBVIOUS
<1>2. /\ target \in Seq(S) /\ Len(target) = 1 + Len(rest)
      /\ \A k \in 1 .. 1 + Len(rest) :
           target[k] = IF k <= 1 THEN <<piece>>[k] ELSE rest[k - 1]
  BY <1>1, ConcatProperties
<1>3. Len(rest) \in Nat /\ DOMAIN rest = 1 .. Len(rest) /\ DOMAIN target = 1 .. 1 + Len(rest)
  BY <1>2, LenProperties
<1> HIDE DEF target
<1>4. target # <<>> /\ target[1] = piece
  <2>1. 1 \in 1 .. 1 + Len(rest)
    BY <1>3
  <2> QED
    BY <1>1, <1>2, <1>3, <2>1
<1>5. Tail(target) = rest
  <2>1. /\ Tail(target) \in Seq(S) /\ Len(Tail(target)) = Len(rest)
        /\ \A k \in 1 .. Len(rest) : Tail(target)[k] = target[k + 1]
    BY <1>2, <1>3, <1>4, HeadTailProperties
  <2>2. \A k \in 1 .. Len(rest) : target[k + 1] = rest[k]
    BY <1>2, <1>3
  <2> QED
    BY <2>1, <2>2, SeqEqual
<1>6. ASSUME NEW k \in DOMAIN target
      PROVE  target[k] = piece \/ \E l \in DOMAIN rest : target[k] = rest[l]
  <2>1. CASE k = 1
    BY <1>4, <2>1
  <2>2. CASE k # 1
    <3>1. k - 1 \in DOMAIN rest /\ target[k] = rest[k - 1]
      BY <1>2, <1>3, <2>2
    <3> QED
      BY <3>1
  <2> QED
    BY <2>1, <2>2
<1> QED
  BY <1>2, <1>4, <1>5, <1>6 DEF target

\* What a server answers to the GET of a user's browser.
Asked(table, maps, target, user) ==
  HandleRequest(table, maps, [method |-> "get", target |-> target, header |-> Browser(user)])

\* The image of a map, below /maps.
LEMMA ImageAnswer ==
  ASSUME NEW table, NEW user \in DOMAIN table, user # Nobody,
         table[user].permissions \in {"View", "Control"},
         NEW S, NEW maps \in Seq(S), Tidy(maps), NEW j \in DOMAIN maps
  PROVE  Asked(table, maps, <<"maps">> \o maps[j].id, user)
           = [status |-> 200, body |-> maps[j].map_image_path]
<1> DEFINE id == maps[j].id
           T == ToSet(id)
           request == [method |-> "get", target |-> <<"maps">> \o id,
                       header |-> Browser(user)]
<1>1. /\ request.method = "get" /\ request.header = Browser(user)
      /\ request.target = <<"maps">> \o id
  OBVIOUS
<1> HIDE DEF request
<1>0. /\ id \in Seq(T) \ NoId
      /\ \A k \in DOMAIN id : id[k] # ".."
      /\ maps[j].map_image_path \in Images
      /\ \A l \in DOMAIN maps : id = maps[l].id => j = l
  BY DEF Tidy
<1> HIDE DEF T
<1>2. /\ request.target \in Seq(T \cup {"maps"}) /\ request.target # <<>>
      /\ \A k \in DOMAIN request.target : request.target[k] # ".."
      /\ request.target[1] = "maps" /\ Tail(request.target) = id
  <2>1. id \in Seq(T \cup {"maps"}) /\ "maps" \in T \cup {"maps"}
    <3>1. T \subseteq T \cup {"maps"}
      OBVIOUS
    <3> QED
      BY <1>0, <3>1, SeqMonotonic
  <2>2. \A l \in DOMAIN id : id[l] # ".."
    BY <1>0
  <2> HIDE DEF id
  <2> QED
    BY <1>1, <2>1, <2>2, Prefixed
<1>3. ~Illegal(request) /\ ~Unidentified(table, request) /\ ~Forbidden(table, request)
  <2>1. EndpointMap["maps"] = "View"
    BY DEF EndpointMap
  <2>2. Within(table[user].permissions, "View")
    BY Ranked DEF AuthorizationType
  <2> QED
    BY <1>1, <1>2, <2>1, <2>2, OnlyForbidden
<1>4. HandleRequest(table, maps, request) = ServeImage(maps, request)
  BY <1>2, <1>3 DEF HandleRequest, IsTargetSingleLevel, TargetStartsWithSegment
<1>5. WithId(maps, id) = {j}
  BY <1>0 DEF WithId
<1>6. GetMapById(maps, id) = maps[j]
  <2>1. j \in Nat
    BY LenProperties
  <2>2. (CHOOSE k \in {j} : \A l \in {j} : k <= l) = j
    BY <2>1
  <2> QED
    BY <1>5, <2>2 DEF GetMapById
<1>7. ServeImage(maps, request) = [status |-> 200, body |-> maps[j].map_image_path]
  BY <1>0, <1>1, <1>2, <1>5, <1>6 DEF ServeImage, Success
<1> QED
  BY <1>4, <1>7 DEF request, Asked

\* A gate of a config that validate_config accepts has a place.
LEMMA GatesPlaced ==
  ASSUME NEW document, ValidateConfig(document),
         NEW k \in DOMAIN Parse(document),
         NEW g \in DOMAIN Parse(document)[k].gate_config
  PROVE  {"x", "y", "id"} \subseteq DOMAIN Parse(document)[k].gate_config[g].value
<1> DEFINE entry == document.value[k]
           gates == Field(entry, "gates").value
<1>1. k \in DOMAIN document.value /\ Parse(document)[k].gate_config = gates
  BY DEF Parse, MapEntry
<1>2. ValidateGateEntry(gates[g])
  BY <1>1 DEF ValidateConfig, ValidateMapEntry
<1>3. \A key \in {"x", "y", "id"} : Field(gates[g], key).type = "unsigned"
  BY <1>2 DEF ValidateGateEntry
<1> QED
  BY <1>1, <1>3 DEF Field, Null

\* All that a page asks for.
Serves(table, maps, user) ==
  LET config == Asked(table, maps, <<"config">>, user)
  IN  /\ Asked(table, maps, <<"styles.css">>, user).status = 200
      /\ config.status = 200
      /\ \A k \in DOMAIN config.body :
           /\ \E map \in {maps[j] : j \in DOMAIN maps} :
                /\ ToClientJson(map) = config.body[k]
                /\ Asked(table, maps, <<"maps">> \o config.body[k].id, user)
                     = [status |-> 200, body |-> map.map_image_path]
           /\ \A g \in DOMAIN config.body[k].gates :
                {"x", "y", "id"} \subseteq DOMAIN config.body[k].gates[g].value

\* Whoever gets a page may view.
LEMMA PageGranted ==
  ASSUME NEW table, Table(table), NEW user \in DOMAIN table, user # Nobody, NEW maps,
         NEW page \in {"view", "control"},
         Asked(table, maps, <<page>>, user).status = 200
  PROVE  table[user].permissions \in {"View", "Control"}
<1>1. page \in DOMAIN EndpointMap /\ EndpointMap[page] \in {"View", "Control"}
  BY DEF EndpointMap
<1>2. Within(table[user].permissions, EndpointMap[page])
  <2> DEFINE target == <<page>>
  <2>1. PICK S : target \in Seq(S)
    BY OnePiece
  <2>2. target[1] = page
    OBVIOUS
  <2>3. HandleRequest(table, maps, [method |-> "get", target |-> target,
                                    header |-> Browser(user)]).status = 200
    BY DEF Asked
  <2> HIDE DEF target
  <2>4. target[1] \in DOMAIN EndpointMap =>
          Within(table[Browser(user)[1].username].permissions, EndpointMap[target[1]])
    BY <2>1, <2>3, SuccessGranted
  <2>5. Browser(user)[1].username = user
    BY DEF Browser
  <2> QED
    BY <1>1, <2>2, <2>4, <2>5
<1>3. table[user].permissions \in AuthorizationType
  BY DEF Table, AuthData
<1> QED
  BY <1>1, <1>2, <1>3, Ranked

\* What a page asks for, from a server whose files are tidy.
LEMMA PageServed ==
  ASSUME FilesTidy, NEW n \in DOMAIN Documents, ValidateConfig(Documents[n]),
         NEW maps, maps = Parse(Documents[n]), NEW S, maps \in Seq(S),
         NEW table, Table(table), NEW user \in DOMAIN table, user # Nobody,
         table[user].permissions \in {"View", "Control"}
  PROVE  Serves(table, maps, user)
<1> DEFINE groups == GroupsIn[table[user].map_groups]
           listed == GetMapsForClient(maps, table[user].permissions, groups)
<1>1. Asked(table, maps, <<"styles.css">>, user).status = 200
  BY StylesAnswer DEF FilesTidy, Asked
<1>2. Asked(table, maps, <<"config">>, user) = [status |-> 200, body |-> listed]
  BY ConfigAnswer DEF Asked
<1>3. Lists(listed, maps, table[user].permissions, groups)
  <2> HIDE DEF groups
  <2> QED
    BY ClientMaps, Zenon
<1>4. ASSUME NEW j \in DOMAIN maps
      PROVE  Asked(table, maps, <<"maps">> \o maps[j].id, user)
               = [status |-> 200, body |-> maps[j].map_image_path]
  <2>1. Tidy(maps)
    BY DEF FilesTidy
  <2> QED
    BY <2>1, ImageAnswer
<1>5. ASSUME NEW j \in DOMAIN maps, NEW g \in DOMAIN maps[j].gate_config
      PROVE  {"x", "y", "id"} \subseteq DOMAIN maps[j].gate_config[g].value
  BY GatesPlaced
<1>6. ASSUME NEW k \in DOMAIN listed
      PROVE  /\ \E map \in {maps[j] : j \in DOMAIN maps} :
                  /\ ToClientJson(map) = listed[k]
                  /\ Asked(table, maps, <<"maps">> \o listed[k].id, user)
                       = [status |-> 200, body |-> map.map_image_path]
             /\ \A g \in DOMAIN listed[k].gates :
                  {"x", "y", "id"} \subseteq DOMAIN listed[k].gates[g].value
  <2> HIDE DEF listed
  <2>1. PICK j \in DOMAIN maps : listed[k] = ToClientJson(maps[j])
    BY <1>3, <1>6 DEF Lists
  <2>2. listed[k].id = maps[j].id /\ listed[k].gates = maps[j].gate_config
    BY <2>1 DEF ToClientJson
  <2>3. /\ ToClientJson(maps[j]) = listed[k]
        /\ Asked(table, maps, <<"maps">> \o listed[k].id, user)
             = [status |-> 200, body |-> maps[j].map_image_path]
    BY <1>4, <2>1, <2>2
  <2>4. \A g \in DOMAIN listed[k].gates :
          {"x", "y", "id"} \subseteq DOMAIN listed[k].gates[g].value
    BY <1>5, <2>2
  <2> QED
    BY <2>3, <2>4, Zenon
<1> HIDE DEF listed
<1> DEFINE config == Asked(table, maps, <<"config">>, user)
<1>7. config.body = listed /\ config.status = 200
  BY <1>2
<1>8. ASSUME NEW k \in DOMAIN config.body
      PROVE  /\ \E map \in {maps[j] : j \in DOMAIN maps} :
                  /\ ToClientJson(map) = config.body[k]
                  /\ Asked(table, maps, <<"maps">> \o config.body[k].id, user)
                       = [status |-> 200, body |-> map.map_image_path]
             /\ \A g \in DOMAIN config.body[k].gates :
                  {"x", "y", "id"} \subseteq DOMAIN config.body[k].gates[g].value
  <2> HIDE DEF config
  <2> QED
    BY <1>6, <1>7
<1> QED
  BY <1>1, <1>7, <1>8, Zenon DEF Serves

\* A page that is served lacks nothing: its permissions are enough for all that it
\* asks for, every map it is told of has an image, and every gate a place.
THEOREM PagesLackNothing ==
  ASSUME FilesTidy PROVE AccessSpec => PagesComplete
<1> DEFINE Complete(user, page) ==
      Get(<<page>>, user).status = 200 =>
        LET listed == Get(<<"config">>, user).body
        IN  /\ Get(<<"styles.css">>, user).status = 200
            /\ Get(<<"config">>, user).status = 200
            /\ \A k \in DOMAIN listed :
                 /\ \E map \in Maps :
                      /\ ToClientJson(map) = listed[k]
                      /\ Get(<<"maps">> \o listed[k].id, user)
                           = [status |-> 200, body |-> map.map_image_path]
                 /\ \A g \in DOMAIN listed[k].gates :
                      {"x", "y", "id"} \subseteq DOMAIN listed[k].gates[g].value
<1>1. ASSUME IInv, AccessNext, Started
      PROVE  \A user \in DOMAIN server'[1].auth_table, page \in {"view", "control"} :
               Complete(user, page)
  <2>1. PICK p \in Paths, n \in DOMAIN Documents : StartServer(p, Documents[n])
    BY <1>1, StartStep
  <2> DEFINE table == server'[1].auth_table
             maps == server'[1].maps
  <2>2. /\ table = Load(disk[p]) /\ maps = Parse(Documents[n])
        /\ Table(Load(disk[p])) /\ Nobody \notin DOMAIN Load(disk[p])
        /\ ValidateConfig(Documents[n])
        /\ \E S : Parse(Documents[n]) \in Seq(S)
    BY <1>1, <2>1, StartedWith
  <2>3. PICK S : maps \in Seq(S)
    BY <2>2
  <2> SUFFICES ASSUME NEW user \in DOMAIN table, NEW page \in {"view", "control"}
               PROVE  Complete(user, page)
    OBVIOUS
  <2>4. \A target : Get(target, user) = Asked(table, maps, target, user)
    BY DEF Get, Answer, Asked
  <2>5. Table(table) /\ user # Nobody /\ maps = Parse(Documents[n])
    BY <2>2
  <2>6. Maps = {maps[j] : j \in DOMAIN maps}
    BY DEF Maps
  <2> HIDE DEF table, maps
  <2> SUFFICES ASSUME Asked(table, maps, <<page>>, user).status = 200
               PROVE  Complete(user, page)
    BY <2>4
  <2>7. table[user].permissions \in {"View", "Control"}
    BY <2>5, PageGranted
  <2>8. Serves(table, maps, user)
    BY <2>2, <2>3, <2>5, <2>7, PageServed
  <2> QED
    BY <2>8, Zenon DEF Serves, Asked, Get, Answer, Maps, table, maps
<1>2. IInv /\ [AccessNext]_accessVars =>
        [Started => \A user \in DOMAIN server'[1].auth_table, page \in {"view", "control"} :
                      Complete(user, page)]_accessVars
  BY <1>1
<1> QED
  BY <1>2, AccessInvariance, PTL DEF AccessSpec, PagesComplete
=============================================================================
