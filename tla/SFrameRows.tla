------------------------------- MODULE SFrameRows -------------------------------
(***************************************************************************)
(* sframe_rows (sframe/sframe_rows.hpp): copies share their columns until  *)
(* one of them is written.  A flag, not the reference counts, says whether *)
(* the columns may be shared; every accessor that hands out something to   *)
(* write with tests it, and the writing itself, through a row, an iterator *)
(* or the vector of columns, tests nothing.                                *)
(*                                                                         *)
(* The columns of an object are copied, moved and made unique together:    *)
(* one address stands for them, and one value for all its rows.            *)
(* ensure_unique, resize and clear are only declared in the repository.    *)
(***************************************************************************)
EXTENDS Integers

CONSTANTS
  Frame,       \* the sframe_rows objects of the program
  Column,      \* addresses of columns; there are always enough of them
  RowValue,    \* what the columns can contain
  MovedOut,    \* the content of cells that were moved out: INTEGERs of whatever bits
  Blank        \* no columns

ASSUME BlankIsNoColumn == Blank \notin Column /\ Blank \notin Frame
ASSUME MovedOutIsContent == MovedOut \in RowValue

VARIABLES
  decoded,     \* m_decoded_columns
  isUnique,    \* m_is_unique
  stored,      \* what is at each address
  handed,      \* the objects of which a row, an iterator or the vector of columns was handed out
  family       \* history: per object, those it has been copied with since either was made unique

rowsVars == <<decoded, isUnique, stored, handed, family>>

InUse == {decoded[f] : f \in Frame}
SharedBy(f) == {g \in Frame : decoded[g] = decoded[f] /\ decoded[f] # Blank}
Contents(f) == IF decoded[f] = Blank THEN Blank ELSE stored[decoded[f]]

\* The families when f gets columns of its own, and when it gets those of g.
Parted(f) == [h \in Frame |-> IF h = f THEN {f} ELSE family[h] \ {f}]
Related(f, g) == [h \in Frame |-> IF h = f \/ h \in family[g] THEN family[g] \cup {f} ELSE family[h] \ {f}]

-------------------------------------------------------------------------------
(* The objects                                                             *)

\* The copy constructor and operator=, of an object to itself as well
CopyRows(f, g) ==
  /\ decoded' = [decoded EXCEPT ![f] = decoded[g]]
  /\ isUnique' = [isUnique EXCEPT ![f] = FALSE, ![g] = FALSE]
  /\ family' = Related(f, g) /\ UNCHANGED <<stored, handed>>

\* The defaulted moves: the flag goes with the columns, and stays where it was as well.
MoveRows(f, g) ==
  /\ f # g /\ decoded' = [decoded EXCEPT ![f] = decoded[g], ![g] = Blank]
  /\ isUnique' = [isUnique EXCEPT ![f] = isUnique[g]]
  /\ family' = [h \in Frame |-> IF h = g THEN {g} ELSE Related(f, g)[h] \ {g}]
  /\ UNCHANGED <<stored, handed>>

\* ensure_unique: shared columns are copied
EnsureUnique(f) ==
  /\ isUnique' = [isUnique EXCEPT ![f] = TRUE]
  /\ IF SharedBy(f) \subseteq {f} THEN UNCHANGED <<decoded, stored>>
     ELSE \E a \in Column \ InUse : /\ decoded' = [decoded EXCEPT ![f] = a]
                                    /\ stored' = [stored EXCEPT ![a] = stored[decoded[f]]]

\* Mutant of Access: the accessor does not test the flag.
Access_untested(f) == /\ handed' = handed \cup {f} /\ family' = Parted(f)
                      /\ UNCHANGED <<decoded, isUnique, stored>>

\* operator[], begin, end and get_columns of an object that is not const
Access(f) == /\ handed' = handed \cup {f} /\ family' = Parted(f)
             /\ IF isUnique[f] THEN UNCHANGED <<decoded, isUnique, stored>> ELSE EnsureUnique(f)

\* The columns of f are new, with whatever content.
NewColumns(f) == \E a \in Column \ InUse, v \in RowValue :
  /\ decoded' = [decoded EXCEPT ![f] = a] /\ stored' = [stored EXCEPT ![a] = v]
  /\ family' = Parted(f) /\ UNCHANGED handed

\* resize of an object that has no columns
ResizeRows(f) == decoded[f] = Blank /\ NewColumns(f) /\ isUnique' = [isUnique EXCEPT ![f] = TRUE]

\* The object is destroyed, and its memory holds a new one.
DestroyRows(f) == /\ decoded' = [decoded EXCEPT ![f] = Blank]
                  /\ isUnique' = [isUnique EXCEPT ![f] = TRUE]
                  /\ handed' = handed \ {f} /\ family' = Parted(f)
                  /\ UNCHANGED stored

-------------------------------------------------------------------------------
(* What was handed out: it keeps the object, and tests nothing any more    *)

\* New columns are put into the vector that get_columns handed out.
ReplaceColumns(f) == f \in handed /\ NewColumns(f) /\ UNCHANGED isUnique

Store(new) == stored' = new /\ UNCHANGED <<decoded, isUnique, handed, family>>

\* An assignment to an element of a row, or to a cell of a column
WriteRow(f, v) == /\ f \in handed /\ decoded[f] # Blank
                  /\ Store([stored EXCEPT ![decoded[f]] = v])

\* row::operator=(const row&).  The assignment operators that the compiler writes for the
\* iterators, const_iterator included, call it or the next: an object need not have handed out
\* anything.
\* Within one object it is another row, or the same.
CopyRow(f, g, v) == /\ decoded[f] # Blank /\ decoded[g] # Blank
                    /\ v = Contents(g) \/ decoded[f] = decoded[g]
                    /\ Store([stored EXCEPT ![decoded[f]] = v])

\* row::operator=(row&&): the cells of the other row are moved out of its object.
MoveRow(f, g, v) == /\ decoded[f] # Blank /\ decoded[g] # Blank
                    /\ v = Contents(g) \/ decoded[f] = decoded[g]
                    /\ Store(IF decoded[f] = decoded[g] THEN [stored EXCEPT ![decoded[f]] = v]
                             ELSE [stored EXCEPT ![decoded[f]] = v, ![decoded[g]] = MovedOut])

-------------------------------------------------------------------------------

RowsInit == /\ decoded = [f \in Frame |-> Blank] /\ isUnique = [f \in Frame |-> TRUE]
            /\ \E v \in RowValue : stored = [a \in Column |-> v]
            /\ handed = {} /\ family = [f \in Frame |-> {f}]

RowsNext == \E f, g \in Frame :
  \/ CopyRows(f, g) \/ MoveRows(f, g)
  \/ Access(f) \/ ResizeRows(f) \/ DestroyRows(f) \/ ReplaceColumns(f)
  \/ \E v \in RowValue : WriteRow(f, v) \/ CopyRow(f, g, v) \/ MoveRow(f, g, v)

RowsSpec == RowsInit /\ [][RowsNext]_rowsVars

-------------------------------------------------------------------------------
(* Properties                                                              *)

\* Everybody is in a family, and the members of one have the same.
AreFamilies(fam) == /\ fam \in [Frame -> SUBSET Frame]
                    /\ \A f \in Frame : f \in fam[f] /\ \A g \in fam[f] : fam[g] = fam[f]

\* Every variable stays in its type.
RowsTypeOK == /\ decoded \in [Frame -> Column \cup {Blank}] /\ isUnique \in [Frame -> BOOLEAN]
              /\ stored \in [Column -> RowValue] /\ handed \subseteq Frame
              /\ AreFamilies(family)

\* An object that takes itself for unique shares its columns with no other, whatever has been
\* copied, moved and destroyed.
UniqueIsAlone == \A f \in Frame : isUnique[f] => SharedBy(f) \subseteq {f}

\* Objects share columns only if they are copies of one another and neither has been made unique.
SharedInFamily == \A f \in Frame : SharedBy(f) \subseteq family[f]

\* "Allowing for safe mutation": what is written through a row, an iterator or a column, however
\* old it is, reaches the copies that were made since its object was last accessed, and no other
\* object; and so does what is moved out of a row.
WritesStayHome == [][
  stored' # stored /\ decoded' = decoded =>
    \A f, g \in Frame, v \in RowValue :
      /\ WriteRow(f, v) \/ CopyRow(f, g, v) =>
           \A h \in Frame \ family[f] : Contents(h)' = Contents(h)
      /\ MoveRow(f, g, v) =>
           \A h \in Frame \ (family[f] \cup family[g]) : Contents(h)' = Contents(h)]_rowsVars

===============================================================================
