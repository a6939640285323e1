---------------------------- MODULE ConfigInputs ----------------------------
(***************************************************************************)
(* dashboard: the inputs of the configuration forms.  Each control shows a *)
(* field in a form of its own and reads it back: durations are split into  *)
(* units, sizes are rounded to two decimals, dates lose their hour and     *)
(* selectors are split at their colons.  The lists of chips are edited in  *)
(* place.                                                                  *)
(*                                                                         *)
(* Definitions named ...Mutant are faulty variants of the definition that  *)
(* follows them.                                                           *)
(***************************************************************************)
EXTENDS ConfigObjects

CONSTANT UtcOffset   \* hours that the browser's clock is ahead of UTC

ASSUME UtcOffsetAssumption == UtcOffset \in -12..14

-----------------------------------------------------------------------------
\* DurationPickerComponent.

SecondsToDuration(s) ==
    [days |-> s \div 86400, hours |-> (s % 86400) \div 3600,
     minutes |-> (s % 3600) \div 60, seconds |-> s % 60]

DurationToSecondsMutant(d) == d.hours * 3600 + d.minutes * 60 + d.seconds

DurationToSeconds(d) == d.days * 86400 + d.hours * 3600 + d.minutes * 60 + d.seconds

\* There is no unit above the minute.
MsToDuration(ms) ==
    [minutes |-> ((ms \div 1000) % 3600) \div 60, seconds |-> (ms \div 1000) % 60,
     milliseconds |-> ms % 1000]

DurationToMs(d) == d.minutes * 60000 + d.seconds * 1000 + d.milliseconds

-----------------------------------------------------------------------------
\* FilesizeInputComponent: an amount in hundredths of a unit.

\* Bytes, KB, MB, GB, TB, PB and EB: the sizes of messages end below 8 EB.
Sizes(i) ==
    CASE i = 0 -> 1
      [] i = 1 -> 1024
      [] i = 2 -> 1048576
      [] i = 3 -> 1073741824
      [] i = 4 -> 1073741824 * 1024
      [] i = 5 -> 1073741824 * 1048576
      [] i = 6 -> 1073741824 * 1073741824

Unit(bytes) ==
    Sizes(CHOOSE i \in 0..6 : /\ bytes \div Sizes(i) > 0
                              /\ i = 6 \/ bytes \div Sizes(i) < 1024)

BytesToHumanReadable(bytes) ==
    LET k == Unit(bytes)
    IN  [unit |-> k, amount |-> 100 * (bytes \div k) + (100 * (bytes % k) + k \div 2) \div k]

FileSizeToBytes(size) ==
    (size.amount \div 100) * size.unit + ((size.amount % 100) * size.unit + 50) \div 100

-----------------------------------------------------------------------------
\* DateTime: a date is shown as the day of the browser's clock; a day is stored as its first or
\* its last hour in UTC.

AdjustTime(hours) == IF hours = 0 THEN 0 ELSE (hours + UtcOffset) \div 24

DateToUtc(day, startOfDay) ==
    IF day = 0 THEN 0 ELSE IF startOfDay THEN 24 * day ELSE 24 * day + 23

-----------------------------------------------------------------------------
\* The value that an input shows for a field, and the one that a form reads from it.

\* selector.split(':', 2): what follows a second colon is dropped.
SplitSelector(s) == IF Len(s) = 1 THEN Append(s, Blank) ELSE SubSeq(s, 1, 2)

ShowValue(type, v) ==
    IF v = Unset THEN Unset
    ELSE CASE type \in {"from", "to"} -> AdjustTime(v)
           [] type = "selectors" -> {SplitSelector(s) : s \in v}
           [] OTHER -> v

ReadValue(type, v) ==
    IF v # Unset /\ type \in {"from", "to"} THEN DateToUtc(v, type = "from") ELSE v

\* Once it has been rendered, an input answers a value that is written to it with the value that
\* it shows.
WriteBack(type, v) ==
    IF type \in {"seconds", "ms", "bytes"} /\ v \in {Unset, 0} THEN 0
    ELSE CASE type = "seconds" -> DurationToSeconds(SecondsToDuration(v))
           [] type = "ms" -> DurationToMs(MsToDuration(v))
           [] type = "bytes" -> FileSizeToBytes(BytesToHumanReadable(v))
           [] OTHER -> v

-----------------------------------------------------------------------------
\* Chips.

AddChip(chips, chip) == IF chip \in ToSet(chips) THEN chips ELSE Append(chips, chip)

RemoveChip(chips, chip) ==
    LET at == {i \in DOMAIN chips : chips[i] = chip}
    IN  IF at = {} THEN chips ELSE RemoveAt(chips, Nth(at, 1))

\* splice(index, 1) and then push: labels and expressions.
MoveChip(chips, index, chip) ==
    Append(IF index \in DOMAIN chips THEN RemoveAt(chips, index) ELSE chips, chip)

\* splice(index, 1, chip): annotations, which are appended when the index is past the end.
ReplaceChip(chips, index, chip) ==
    IF index \in DOMAIN chips THEN ReplaceAt(chips, index, chip) ELSE Append(chips, chip)

=============================================================================
