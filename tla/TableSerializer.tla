--------------------------- MODULE TableSerializer ----------------------------
(***************************************************************************)
(* Saving a hash table to a stream and loading it again                    *)
(* (inc/L4/HashTable/ReadWrite/Serializer.h).  The serializer walks the    *)
(* table with an iterator; the deserializer reads record after record and  *)
(* adds it to a new table, whose RegisterAction() throws.                  *)
(*                                                                         *)
(* A stream is a sequence of items: the version, the settings, each record *)
(* behind a flag TRUE, and a last flag FALSE.  It may reach the            *)
(* deserializer cut off, or come from another version: reading beyond its  *)
(* end leaves the variable that is read as it was.                         *)
(***************************************************************************)
EXTENDS TableIterator

CONSTANTS
    EmptyKey,     \* the key of size 0, which a Key is constructed with
    EmptyValue,   \* the value of size 0
    OtherVersions \* versions that are not supported; 0 is one

ASSUME SerializerAssumption ==
    /\ EmptyKey \in Keys /\ EmptyValue \in Values
    /\ 0 \in OtherVersions /\ 1 \notin OtherVersions

VARIABLES
    phase,         \* where the table is on its way
    writersGoOn,   \* whether records are added and removed during Serialize()
    stream,        \* what was written
    recordsSaved,  \* RecordsCountSavedFromSerializer of the table
    input,         \* what is left to be read
    arrived,       \* how the stream has arrived (history)
    hasMoreData,   \* of Deserialize()
    loaded,        \* the new table
    recordsLoaded  \* RecordsCountLoadedFromSerializer of the new table

saveVars == <<writersGoOn, stream, recordsSaved>>
loadVars == <<input, arrived, hasMoreData, loaded, recordsLoaded>>
vars == <<iteratorVars, phase, saveVars, loadVars>>

c_version == 1

Version(v) == [kind |-> "version", value |-> v]
Setting(n) == [kind |-> "setting", value |-> n]   \* of the settings, m_numBuckets
Flag(more) == [kind |-> "flag", value |-> more]
Record(r) == [kind |-> "record", value |-> r]

TypeOK ==
    /\ IteratorTypeOK
    /\ phase \in {"filling", "saving", "saved", "version", "setting", "loading", "loaded", "failed"}
    /\ {writersGoOn, hasMoreData} \subseteq BOOLEAN
    /\ arrived \in {"no", "whole", "other", "head", "cut"}
    /\ {recordsSaved, recordsLoaded} \subseteq Nat
    /\ \A b \in DOMAIN loaded : \A i \in DOMAIN loaded[b] : loaded[b][i] \in Records \cup {Null}

Init ==
    /\ IteratorInit
    /\ phase = "filling"
    /\ writersGoOn \in BOOLEAN
    /\ stream = <<>>
    /\ recordsSaved = 0
    /\ input = <<>>
    /\ arrived = "no"
    /\ hasMoreData = FALSE
    /\ loaded = EmptyTable
    /\ recordsLoaded = 0

-------------------------------------------------------------------------------
(* Serialize().                                                              *)

Fill ==
    /\ phase = "filling" \/ (phase = "saving" /\ writersGoOn)
    /\ Write
    /\ UNCHANGED <<phase, saveVars, loadVars>>

\* Before, someone else walks the table with an iterator.
Iterate ==
    /\ phase = "filling"
    /\ MoveNext \/ Reset
    /\ UNCHANGED <<phase, saveVars, loadVars>>

\* SerializerHelper::Serialize() of one item after the other.
Serialize(items) == stream' = stream \o items

\* GetSerializer() of a cache throws.
BeginSave ==
    /\ phase = "filling"
    /\ ~isCache
    /\ it.state = "start"
    /\ phase' = "saving"
    /\ recordsSaved' = 0
    /\ Serialize(<<Version(c_version), Setting(NumBuckets)>>)
    /\ BeginMoveNext
    /\ UNCHANGED <<writersGoOn, loadVars>>

Walk ==
    /\ phase = "saving"
    /\ MoveToNextData \/ NextBucket \/ LoadRecord
    /\ UNCHANGED <<phase, saveVars, loadVars>>

\* Writes the record the iterator has stopped at and goes on.
SaveRecord ==
    /\ phase = "saving"
    /\ it.state = "valid"
    /\ Serialize(<<Flag(TRUE), Record(it.record)>>)
    /\ recordsSaved' = recordsSaved + 1
    /\ BeginMoveNext
    /\ UNCHANGED <<phase, writersGoOn, loadVars>>

EndSave ==
    /\ phase = "saving"
    /\ it.state = "end"
    /\ phase' = "saved"
    /\ Serialize(<<Flag(FALSE)>>)
    /\ UNCHANGED <<iteratorVars, writersGoOn, recordsSaved, loadVars>>

Save == BeginSave \/ Walk \/ SaveRecord \/ EndSave

-------------------------------------------------------------------------------
(* Deserialize().                                                            *)

\* The stream reaches the deserializer: all of it, or its first n items,
\* perhaps with a part of the next record, which then has any key; or it is of
\* another version.
Arrive ==
    /\ phase = "saved"
    /\ phase' = "version"
    /\ \/ arrived' = "whole" /\ input' = stream
       \/ /\ arrived' = "other"
          /\ \E v \in OtherVersions : input' = <<Version(v)>> \o Tail(stream)
       \/ \E n \in 0 .. Len(stream) - 1 :
              /\ arrived' = IF n = 0 THEN "other" ELSE IF n <= 2 THEN "head" ELSE "cut"
              /\ \/ input' = SubSeq(stream, 1, n)
                 \/ /\ stream[n + 1].kind = "record"
                    /\ \E k \in Keys :
                           input' = SubSeq(stream, 1, n) \o <<Record([key |-> k, value |-> EmptyValue])>>
    /\ UNCHANGED <<iteratorVars, saveVars, hasMoreData, loaded, recordsLoaded>>

\* DeserializerHelper::Deserialize() into a variable with a value.
Deserialize(pos, variable) == IF pos \in DOMAIN input THEN input[pos].value ELSE variable

ReadVersion ==
    /\ phase = "version"
    /\ phase' = IF Deserialize(1, 0) = c_version THEN "setting" ELSE "failed"
    /\ UNCHANGED <<iteratorVars, saveVars, loadVars>>

\* The rest of the input behind its first n items.
Behind(n) == SubSeq(input, n + 1, Len(input))

\* The settings, of which the default is one bucket, and the first flag.
ReadSetting ==
    /\ phase = "setting"
    /\ phase' = "loading"
    /\ loaded' = [b \in 0 .. Deserialize(2, 1) - 1 |-> Entry]
    /\ hasMoreData' = Deserialize(3, FALSE)
    /\ input' = Behind(3)
    /\ UNCHANGED <<iteratorVars, saveVars, arrived, recordsLoaded>>

\* Mistake: the flag is FALSE again before it is read.
FlagAfter_Reset(pos) == Deserialize(pos, FALSE)

\* What hasMoreData is after it was read.
FlagAfter(pos) == Deserialize(pos, hasMoreData)

\* One record and the flag behind it; RegisterAction(), called for a record that
\* is replaced, throws.
LoadNextRecord ==
    LET r == Deserialize(1, [key |-> EmptyKey, value |-> EmptyValue])
        b == Bucket[r.key] % Cardinality(DOMAIN loaded)
    IN  /\ phase = "loading"
        /\ hasMoreData
        /\ loaded' = [loaded EXCEPT ![b] = Put(@, r)]
        /\ IF \E i \in DOMAIN loaded[b] : loaded[b][i] # Null /\ loaded[b][i].key = r.key
           THEN phase' = "failed" /\ UNCHANGED <<hasMoreData, input, recordsLoaded>>
           ELSE /\ hasMoreData' = FlagAfter(2)
                /\ input' = Behind(2)
                /\ recordsLoaded' = recordsLoaded + 1
                /\ UNCHANGED phase
        /\ UNCHANGED <<iteratorVars, saveVars, arrived>>

EndLoad ==
    /\ phase = "loading"
    /\ ~hasMoreData
    /\ phase' = "loaded"
    /\ UNCHANGED <<iteratorVars, saveVars, loadVars>>

\* Deserialize() has returned or thrown.
Done ==
    /\ phase \in {"loaded", "failed"}
    /\ UNCHANGED vars

Load == ReadVersion \/ ReadSetting \/ LoadNextRecord \/ EndLoad

Next == Fill \/ Iterate \/ Save \/ Arrive \/ Load \/ Done

Spec == Init /\ [][Next]_vars

-------------------------------------------------------------------------------
(* Properties.                                                               *)

\* A table at rest comes back as it was; one that is written meanwhile comes
\* back with at least the keys that were there all the while.  The counters of
\* the two tables say how many records that are.
RoundTrip ==
    arrived = "whole" =>
        /\ ~writersGoOn => phase # "failed"
        /\ phase = "loaded" =>
               /\ DOMAIN loaded = Buckets
               /\ recordsSaved = recordsLoaded /\ recordsLoaded = Cardinality(Contents(loaded))
               /\ KeysOf(table) \ touched \subseteq KeysOf(loaded)
               /\ ~writersGoOn => Contents(loaded) = Contents(table)

\* A stream of an unknown version, or without one, is not loaded, and one that
\* was cut off behind its first flag is never taken for a whole one.  Nothing
\* tests for the end of the stream: the flag keeps its value, the empty key is
\* added twice, and RegisterAction() throws (Serializer.h:157).
CutIsNoticed == arrived \in {"other", "cut"} => phase # "loaded"

-------------------------------------------------------------------------------
(* Not guaranteed by the code: TLC refutes these (README, section 4).        *)

\* "it is guaranteed that all the keys are unique (a property of a hash table).
\* Therefore, RegisterAction() should not be called" (Serializer.h:154)
KeysAreUnique == arrived = "whole" => phase # "failed"

\* A stream that ends before its first flag is loaded as an empty table.
NoFlagIsNoticed == arrived = "head" => phase # "loaded"
===============================================================================
