------------------------------ MODULE Metrics -------------------------------
(***************************************************************************)
(* The metrics collector of src/distributed/distributed.c: a list of named *)
(* numbers, one for each name that was ever used, and its export into a    *)
(* buffer of fixed size.  Every call holds the mutex and is one step.      *)
(*                                                                         *)
(* A number is counted in units small enough for the averages of           *)
(* metrics_histogram_observe; a call whose average is no whole number of   *)
(* units is left out.  The text of a metric, "%s: %.2f\n", is as long as   *)
(* its name, the digits of its integer part and Overhead for the rest.     *)
(***************************************************************************)
EXTENDS Integers, SequencesExt

CONSTANTS
    MetricNames,    \* [id, length]
    Values,         \* arguments of metrics_gauge_set and metrics_histogram_observe
    Unit,           \* units in 1.0
    Overhead,       \* length of ": ", two decimals with their point, and the line end
    BufferSize,     \* 4096 in metrics_export
    MaxValue,       \* bound: the numbers kept
    None

VARIABLES
    metrics,        \* the list, newest first: [name, value]
    exported        \* what metrics_export made of the list, None since it changed

vars == <<metrics, exported>>

Text == {"uninitialized", "whole", "cut"}

TypeOK ==
    /\ metrics \in Seq([name : MetricNames, value : 0 .. MaxValue])
    /\ exported \in [offset : Nat, text : Text, overrun : BOOLEAN] \cup {None}

(* metrics_collector_create; calloc leaves the list empty. *)
Init ==
    /\ metrics = <<>>
    /\ exported = None

(* find_or_create_metric: the list with a metric of that name in it. *)
Found(name) ==
    IF \E i \in 1 .. Len(metrics) : metrics[i].name = name
    THEN metrics
    ELSE <<[name |-> name, value |-> 0]>> \o metrics

(* The first metric of that name in it. *)
PlaceOf(name) == SelectInSeq(Found(name), LAMBDA m : m.name = name)
Old(name) == Found(name)[PlaceOf(name)].value

(* It gets a new value. *)
Update(name, new) ==
    /\ new <= MaxValue
    /\ metrics' = [Found(name) EXCEPT ![PlaceOf(name)].value = new]
    /\ exported' = None

(* metrics_counter_inc *)
CounterInc(name) == Update(name, Old(name) + Unit)

(* metrics_gauge_set *)
GaugeSet(name, v) == Update(name, v)

(* metrics_histogram_observe: the average of the old value and the new. *)
HistogramObserve(name, v) ==
    /\ (Old(name) + v) % 2 = 0
    /\ Update(name, (Old(name) + v) \div 2)

(* The digits of a number below 10^10. *)
Digits(n) == 1 + Cardinality({d \in 1 .. 9 : n >= 10 ^ d})

Length(m) == m.name.length + Digits(m.value \div Unit) + Overhead

(* malloc: nothing has been written into the buffer. *)
Nothing == [offset |-> 0, text |-> "uninitialized", overrun |-> FALSE]

PrintIntoFullSize(out, m) ==
    [offset |-> out.offset + Length(m),
     text |-> IF out.text # "cut" /\ Length(m) < BufferSize THEN "whole" ELSE "cut",
     overrun |-> out.overrun \/ out.offset + Length(m) >= BufferSize]

(* snprintf(buffer + offset, size - offset, ...), and offset moved on by    *)
(* what the whole text needs.  Once offset is past size, size - offset is a *)
(* huge number and the text is written beyond the buffer.                   *)
PrintMetric(out, m) ==
    [offset |-> out.offset + Length(m),
     text |-> IF out.text # "cut" /\ Length(m) < BufferSize - out.offset THEN "whole" ELSE "cut",
     overrun |-> out.overrun \/ out.offset > BufferSize]

(* metrics_export *)
Export ==
    /\ exported = None
    /\ exported' = FoldLeft(PrintMetric, Nothing, metrics)
    /\ UNCHANGED metrics

(* metrics_collector_destroy, and another collector is created. *)
Destroy ==
    /\ metrics' = <<>>
    /\ exported' = None

Next ==
    \/ \E name \in MetricNames :
          \/ CounterInc(name)
          \/ \E v \in Values : GaugeSet(name, v) \/ HistogramObserve(name, v)
    \/ Export
    \/ Destroy

Spec == Init /\ [][Next]_vars

-----------------------------------------------------------------------------
(* Properties. *)

Size(ms) == FoldLeft(LAMBDA n, m : n + Length(m), 0, ms)

(* The export is the whole text if that fits with its terminator, for any   *)
(* order of the metrics; it leaves the buffer exactly when the metrics      *)
(* before the last one alone need more than it holds; and without a metric  *)
(* the buffer is not even terminated.                                       *)
ExportedOrOverrun ==
    exported # None =>
        /\ exported.text = "uninitialized" <=> metrics = <<>>
        /\ exported.text = "whole" <=> metrics # <<>> /\ Size(metrics) < BufferSize
        /\ exported.overrun <=> metrics # <<>> /\ Size(Front(metrics)) > BufferSize
=============================================================================
