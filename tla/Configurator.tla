---------------------------- MODULE Configurator ----------------------------
(***************************************************************************)
(* The configurator, which edits auth-files, and the auth-file's format    *)
(* (auth_table.hpp), which the server reads once when it starts.           *)
(*                                                                         *)
(* A line login:permissions:map_groups:password is the sequence of its     *)
(* pieces between colons.  A password may contain colons and so be several *)
(* pieces; a login and the map groups, kept joined by semicolons, are one  *)
(* piece each (the code does not check that they contain no colon).        *)
(*                                                                         *)
(* Saving truncates the file and then writes one user at a time, so that   *)
(* the configurator may be killed, and a server started, in between, and a *)
(* full disk cuts the save off inside a line.                              *)
(***************************************************************************)
EXTENDS Integers, Sequences

CONSTANTS
  Texts,        \* what can stand between two colons
  Beginnings,   \* what may be left of each text when a line is cut in it
  Paths,        \* auth-files, existing or not
  Logins,       \* logins entered by hand
  Entries,      \* auth_data entered by hand
  InitialFiles  \* contents an existing file may have at first

AuthorizationType == {"Blocked", "View", "Control"}

AuthData ==
  [permissions : AuthorizationType, map_groups : Texts,
   password : Seq(Texts) \ {<<>>}]

ASSUME ConfiguratorAssumption ==
  /\ {"0", "1", "2"} \subseteq Texts
  /\ Beginnings \in [Texts -> SUBSET Texts]
  /\ Logins \subseteq Texts
  /\ Entries \subseteq AuthData
  /\ InitialFiles \subseteq Seq(Seq(Texts))

VARIABLES
  disk,        \* the lines of each file
  exists,      \* the files that exist
  path,        \* state::auth_file_path, <<>> or <<path>>
  auth_table,  \* state::auth_table, <<>> or <<table>>
  unwritten,   \* while a save is under way, <<users still to be written>>
  cin_failed,  \* std::cin has failed
  saved,       \* history: the table last saved to each file, <<>> or <<table>>
  complete,    \* history: whether all of it was written
  deleted      \* history: users deleted since the file was opened

vars == <<disk, exists, path, auth_table, unwritten, cin_failed,
          saved, complete, deleted>>

-----------------------------------------------------------------------------
\* auth_table.hpp.

Number == [Blocked |-> "0", View |-> "1", Control |-> "2"]

\* Mutants: without map groups their field is left out; the password is written
\* before them.
Line_NoEmptyField(login, entry) ==
  <<login, Number[entry.permissions]>>
    \o (IF entry.map_groups = "" THEN <<>> ELSE <<entry.map_groups>>)
    \o entry.password

Line_PasswordFirst(login, entry) ==
  <<login, Number[entry.permissions]>> \o Append(entry.password, entry.map_groups)

\* What save_auth_table_to_file writes for one user.
Line(login, entry) ==
  <<login, Number[entry.permissions], entry.map_groups>> \o entry.password

\* What is left of pieces joined by colons that are cut at any byte.
Cuts(pieces) ==
  UNION {{Append(SubSeq(pieces, 1, k - 1), text) : text \in Beginnings[pieces[k]]} :
           k \in DOMAIN pieces}

\* Lines that open_auth_table_from_file does not skip.
Valid(line) ==
  Len(line) >= 4 /\ \E type \in AuthorizationType : Number[type] = line[2]

Entry(line) ==
  [permissions |-> CHOOSE type \in AuthorizationType : Number[type] = line[2],
   map_groups  |-> line[3],
   password    |-> SubSeq(line, 4, Len(line))]

LinesOf(lines, login) ==
  {k \in DOMAIN lines : Valid(lines[k]) /\ lines[k][1] = login}

FirstLine(lines, login) ==
  CHOOSE k \in LinesOf(lines, login) : \A j \in LinesOf(lines, login) : k <= j

LoginsOf(lines) == {lines[k][1] : k \in {k \in DOMAIN lines : Valid(lines[k])}}

\* open_auth_table_from_file: of several lines for one login the first counts.
Load(lines) ==
  [login \in LoginsOf(lines) |-> Entry(lines[FirstLine(lines, login)])]

-----------------------------------------------------------------------------
Without(table, login) == [l \in DOMAIN table \ {login} |-> table[l]]

With(table, login, entry) ==
  [l \in DOMAIN table \cup {login} |-> IF l = login THEN entry ELSE table[l]]

EmptyTable == [l \in {} |-> <<>>]

\* The menu is shown, and can read a choice.
AtMenu == unwritten = <<>> /\ ~cin_failed

\* Mutants: a file that cannot be read leaves the table as it was; the path is
\* taken over only when there is a file.
SetFilePath_KeepsTable(p) ==
  /\ AtMenu
  /\ \/ p \notin exists /\ auth_table' = <<EmptyTable>>
     \/ p \in exists /\ auth_table' \in {<<Load(disk[p])>>, auth_table}
  /\ path' = <<p>>
  /\ deleted' = {}
  /\ UNCHANGED <<disk, exists, unwritten, cin_failed, saved, complete>>

SetFilePath_ExistingOnly(p) ==
  /\ AtMenu
  /\ \/ p \notin exists /\ auth_table' = <<EmptyTable>> /\ path' = path
     \/ p \in exists /\ auth_table' \in {<<Load(disk[p])>>, <<>>} /\ path' = <<p>>
  /\ deleted' = {}
  /\ UNCHANGED <<disk, exists, unwritten, cin_failed, saved, complete>>

\* set_file_path: a new file, when the user confirms it, or an existing one,
\* which cannot always be read.
SetFilePath(p) ==
  /\ AtMenu
  /\ \/ p \notin exists /\ auth_table' = <<EmptyTable>>
     \/ p \in exists /\ auth_table' \in {<<Load(disk[p])>>, <<>>}
  /\ path' = <<p>>
  /\ deleted' = {}
  /\ UNCHANGED <<disk, exists, unwritten, cin_failed, saved, complete>>

\* add_new_user: a login already in the table is asked for again.
AddUser(login, entry) ==
  /\ AtMenu
  /\ auth_table # <<>>
  /\ login \notin DOMAIN auth_table[1]
  /\ auth_table' = <<With(auth_table[1], login, entry)>>
  /\ UNCHANGED <<disk, exists, path, unwritten, cin_failed, saved, complete, deleted>>

DeleteUser(login) ==
  /\ AtMenu
  /\ auth_table # <<>>
  /\ login \in DOMAIN auth_table[1]
  /\ auth_table' = <<Without(auth_table[1], login)>>
  /\ deleted' = deleted \cup {login}
  /\ UNCHANGED <<disk, exists, path, unwritten, cin_failed, saved, complete>>

\* write_to_disk, up to the truncation.  (When the file cannot be opened for
\* writing, nothing happens.)
WriteToDisk ==
  /\ AtMenu
  /\ auth_table # <<>>
  /\ disk' = [disk EXCEPT ![path[1]] = <<>>]
  /\ exists' = exists \cup {path[1]}
  /\ unwritten' = auth_table
  /\ saved' = [saved EXCEPT ![path[1]] = auth_table]
  /\ complete' = [complete EXCEPT ![path[1]] = FALSE]
  /\ UNCHANGED <<path, auth_table, cin_failed, deleted>>

\* One turn of the loop of save_auth_table_to_file, in the table's own order.
WriteUser(login) ==
  /\ unwritten # <<>>
  /\ login \in DOMAIN unwritten[1]
  /\ disk' = [disk EXCEPT ![path[1]] = Append(@, Line(login, unwritten[1][login]))]
  /\ unwritten' = <<Without(unwritten[1], login)>>
  /\ UNCHANGED <<exists, path, auth_table, cin_failed, saved, complete, deleted>>

\* A turn for which the disk has no room: the line is cut at any byte, the stream
\* drops the rest of the table, and the configurator reports success all the same.
DiskFull(login) ==
  /\ unwritten # <<>>
  /\ login \in DOMAIN unwritten[1]
  /\ \/ UNCHANGED disk
     \/ \E part \in Cuts(Line(login, unwritten[1][login])) :
          disk' = [disk EXCEPT ![path[1]] = Append(@, part)]
  /\ unwritten' = <<>>
  /\ UNCHANGED <<exists, path, auth_table, cin_failed, saved, complete, deleted>>

\* The file is closed: all is written.
EndOfSave ==
  /\ unwritten # <<>>
  /\ DOMAIN unwritten[1] = {}
  /\ unwritten' = <<>>
  /\ complete' = [complete EXCEPT ![path[1]] = TRUE]
  /\ UNCHANGED <<disk, exists, path, auth_table, cin_failed, saved, deleted>>

\* menu reads something that is not a number: std::cin fails, nothing clears it,
\* and "Try again" is printed for ever.
Mistype ==
  /\ AtMenu
  /\ cin_failed' = TRUE
  /\ UNCHANGED <<disk, exists, path, auth_table, unwritten, saved, complete, deleted>>

\* The configurator exits or is killed, at any point, and is started again.
Restart ==
  /\ path' = <<>>
  /\ auth_table' = <<>>
  /\ unwritten' = <<>>
  /\ cin_failed' = FALSE
  /\ deleted' = {}
  /\ UNCHANGED <<disk, exists, saved, complete>>

-----------------------------------------------------------------------------
Init ==
  /\ exists \in SUBSET Paths
  /\ disk \in [Paths -> InitialFiles \cup {<<>>}]
  /\ \A p \in Paths \ exists : disk[p] = <<>>
  /\ path = <<>> /\ auth_table = <<>> /\ unwritten = <<>>
  /\ cin_failed = FALSE
  /\ saved = [p \in Paths |-> <<>>]
  /\ complete = [p \in Paths |-> FALSE]
  /\ deleted = {}

Next ==
  \/ \E p \in Paths : SetFilePath(p)
  \/ \E login \in Logins, entry \in Entries : AddUser(login, entry)
  \/ auth_table # <<>> /\ \E login \in DOMAIN auth_table[1] : DeleteUser(login)
  \/ WriteToDisk
  \/ unwritten # <<>> /\ \E login \in DOMAIN unwritten[1] :
                            WriteUser(login) \/ DiskFull(login)
  \/ EndOfSave \/ Mistype \/ Restart

Spec == Init /\ [][Next]_vars

-----------------------------------------------------------------------------
Table(table) == DOMAIN table \subseteq Texts /\ table \in [DOMAIN table -> AuthData]

Optional(table) == table = <<>> \/ (table = <<table[1]>> /\ Table(table[1]))

TypeOK ==
  /\ exists \subseteq Paths
  /\ disk \in [Paths -> Seq(Seq(Texts))]
  /\ \A p \in Paths \ exists : disk[p] = <<>>
  /\ path = <<>> \/ \E p \in Paths : path = <<p>>
  /\ Optional(auth_table) /\ Optional(unwritten)
  /\ auth_table # <<>> => path # <<>>
  /\ unwritten # <<>> => auth_table # <<>>
  /\ cin_failed \in BOOLEAN
  /\ deleted \subseteq Texts
  /\ DOMAIN saved = Paths /\ \A p \in Paths : Optional(saved[p])
  /\ complete \in [Paths -> BOOLEAN]

\* An entry without the end of its password.
Shortened(entry) ==
  {[entry EXCEPT !.password = part] : part \in Cuts(entry.password)}

\* What is read of lines that were saved for a table.
Preserved(lines, table) ==
  LET read == Load(lines)
  IN  /\ DOMAIN read \subseteq DOMAIN table
      /\ \A login \in DOMAIN read :
           \/ read[login] = table[login]
           \/ /\ login = lines[Len(lines)][1]
              /\ read[login] \in Shortened(table[login])

\* What a server started at this moment reads from a file that has been saved:
\* users as they were in the editor, wherever the save was interrupted, and all
\* of them once it was not.  Nobody's permissions or groups change on the way
\* through the file, nobody's password but that of the one user on whose line a
\* full disk has cut the file off, which then is a beginning of the right one, and
\* no user deleted in the editor is still there.
SavedAsEdited ==
  \A p \in Paths : saved[p] # <<>> =>
    /\ Preserved(disk[p], saved[p][1])
    /\ complete[p] => Load(disk[p]) = saved[p][1]

\* Truncating a file never throws away a user whom nobody deleted: the users it
\* had are about to be written again, whatever files were opened before it.
TruncationLosesOnlyDeleted ==
  [][\A p \in Paths : disk[p] # <<>> /\ disk'[p] = <<>> =>
       DOMAIN Load(disk[p]) \subseteq deleted \cup DOMAIN unwritten'[1]]_vars
=============================================================================
