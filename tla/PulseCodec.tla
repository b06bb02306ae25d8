------------------------------ MODULE PulseCodec ------------------------------
(***************************************************************************)
(* The replies of the PulseAudio server: what it writes, and what bread    *)
(* and the ReadFrom methods make of it.                                    *)
(*                                                                         *)
(* A packet is a sequence of tags and data, each standing for its bytes.   *)
(* Numbers and strings are data alike; 0 is the empty string.  A reply is  *)
(* described by its fields, in the order of the arguments of bread.        *)
(***************************************************************************)
EXTENDS Integers, Sequences, SequencesExt

TagOf(t) == [is |-> "tag", tag |-> t]
DatumOf(v) == [is |-> "datum", datum |-> v]

(* Fields. *)
Tagged(t) == [f |-> "tagged", tag |-> t]
U32 == Tagged("uint32")
String == Tagged("string")
Usec == Tagged("usec")
Bool == [f |-> "bool"]
SampleSpec == [f |-> "fixed", tag |-> "sampleSpec", n |-> 3]
ChannelMap == [f |-> "counted", tag |-> "channelMap"]
CVolume == [f |-> "counted", tag |-> "cvolume"]
PropList == [f |-> "propList"]
Many(t, fields) == [f |-> "many", tag |-> t, fields |-> fields]
(* The active port is a null string when the ports, the field before it, are
   none. *)
ActivePort == [f |-> "activePort"]
Struct(tag, fields) == [f |-> "struct", tag |-> tag, fields |-> fields]

Format == Struct("formatInfo", <<Tagged("uint8"), PropList>>)

(* Sinks and sources alike. *)
Device == <<U32, String, String, SampleSpec, ChannelMap, U32, CVolume, Bool, U32, String, Usec,
            String, U32, PropList, Usec, Tagged("volume"), U32, U32, U32,
            Many("uint32", <<String, String, U32, U32>>), ActivePort, Many("uint8", <<Format>>)>>

SinkInput == <<U32, String, U32, U32, U32, SampleSpec, ChannelMap, CVolume, Usec, Usec, String,
               String, Bool, PropList, Bool, Bool, Bool, Format>>

SourceOutput == <<U32, String, U32, U32, U32, SampleSpec, ChannelMap, Usec, Usec, String, String,
                  PropList, Bool, CVolume, Bool, Bool, Bool, Format>>

Card == <<U32, String, U32, String, Many("uint32", <<String, String, U32, U32, U32, U32>>),
          String, PropList,
          Many("uint32", <<String, String, U32, U32, Tagged("uint8"), PropList,
                           Many("uint32", <<String>>), Tagged("int64")>>)>>

Module == <<U32, String, String, U32, PropList>>

Server == <<String, String, String, String, SampleSpec, String, String, U32, ChannelMap>>

-----------------------------------------------------------------------------
(* External: what the server writes for a record.                          *)
RECURSIVE Written(_, _)

WrittenField(field, v) ==
    CASE field.f = "tagged" ->
            IF field.tag = "string" /\ v = 0 THEN <<TagOf("null")>> ELSE <<TagOf(field.tag), DatumOf(v)>>
      [] field.f = "activePort" -> IF v = 0 THEN <<TagOf("null")>> ELSE <<TagOf("string"), DatumOf(v)>>
      [] field.f = "bool" -> <<TagOf(IF v = 1 THEN "true" ELSE "false")>>
      [] field.f = "fixed" -> <<TagOf(field.tag)>> \o [i \in 1 .. field.n |-> DatumOf(v[i])]
      [] field.f = "counted" -> <<TagOf(field.tag), DatumOf(Len(v))>> \o [i \in DOMAIN v |-> DatumOf(v[i])]
      [] field.f = "propList" ->
            <<TagOf("propList")>>
            \o FlattenSeq([i \in DOMAIN v |->
                  <<TagOf("string"), DatumOf(v[i][1]), TagOf("uint32"), DatumOf(v[i][2]),
                    TagOf("arbitrary"), DatumOf(v[i][2]), DatumOf(v[i][2])>>])
            \o <<TagOf("null")>>
      [] field.f = "many" ->
            <<TagOf(field.tag), DatumOf(Len(v))>> \o FlattenSeq([i \in DOMAIN v |-> Written(field.fields, v[i])])
      [] field.f = "struct" -> <<TagOf(field.tag)>> \o Written(field.fields, v)

Written(fields, r) == FlattenSeq([i \in DOMAIN fields |-> WrittenField(fields[i], r[i])])

-----------------------------------------------------------------------------
(* Reading.  A reader is given the rest of the packet and returns what it has
   read, or fails.                                                         *)
Read(v, rest) == [ok |-> TRUE, v |-> v, rest |-> rest]
Fails == [ok |-> FALSE]

NextIsTag(in, t) == in # << >> /\ Head(in).is = "tag" /\ Head(in).tag = t
NextIsDatum(in) == in # << >> /\ Head(in).is = "datum"

ReadData(in, n) ==
    IF Len(in) >= n /\ \A i \in 1 .. n : in[i].is = "datum"
    THEN Read([i \in 1 .. n |-> in[i].datum], SubSeq(in, n + 1, Len(in)))
    ELSE Fails

(* A channel map may be shorter than it says: Read returns what there is. *)
ReadChannels(in, n) ==
    LET m == IF Len(in) < n THEN Len(in) ELSE n
        there == ReadData(in, m)
    IN  IF ~there.ok \/ (m = 0 /\ n > 0) THEN Fails
        ELSE Read(there.v \o [i \in 1 .. n - m |-> 0], there.rest)

(* Mutant: the null tag is read like any other. *)
ReadTaggedNoNull(in, t) ==
    IF NextIsTag(in, t) /\ NextIsDatum(Tail(in)) THEN Read(Head(Tail(in)).datum, Tail(Tail(in)))
    ELSE Fails

(* A tag and its datum.  A null string takes the place of any of them, and the
   datum is left as it is. *)
ReadTagged(in, t) ==
    IF NextIsTag(in, "null") THEN Read(0, Tail(in))
    ELSE IF NextIsTag(in, t) /\ NextIsDatum(Tail(in)) THEN Read(Head(Tail(in)).datum, Tail(Tail(in)))
    ELSE Fails

ReadBool(in) ==
    IF NextIsTag(in, "true") THEN Read(1, Tail(in))
    ELSE IF NextIsTag(in, "false") THEN Read(0, Tail(in)) ELSE Fails

(* The lengths of a value, and the value, must agree. *)
RECURSIVE ReadProps(_, _)
ReadProps(in, sofar) ==
    IF NextIsTag(in, "null") THEN Read(sofar, Tail(in))
    ELSE LET k == IF NextIsTag(in, "string") THEN ReadData(Tail(in), 1) ELSE Fails
             l == IF k.ok THEN ReadTagged(k.rest, "uint32") ELSE Fails
             a == IF l.ok THEN ReadTagged(l.rest, "arbitrary") ELSE Fails
             v == IF a.ok THEN ReadData(a.rest, 1) ELSE Fails
         IN  IF v.ok /\ l.v = v.v[1] /\ a.v = v.v[1]
             THEN ReadProps(v.rest, Append(sofar, <<k.v[1], v.v[1]>>)) ELSE Fails

RECURSIVE ReadFields(_, _, _)

RECURSIVE ReadMany(_, _, _, _)
ReadMany(in, fields, n, sofar) ==
    IF n = 0 THEN Read(sofar, in)
    ELSE LET r == ReadFields(in, fields, << >>)
         IN  IF r.ok THEN ReadMany(r.rest, fields, n - 1, Append(sofar, r.v)) ELSE Fails

(* One argument of bread, or a ReadFrom. *)
ReadField(in, field, sofar) ==
    CASE field.f = "tagged" -> ReadTagged(in, field.tag)
      [] field.f = "bool" -> ReadBool(in)
      [] field.f = "fixed" -> IF NextIsTag(in, field.tag) THEN ReadData(Tail(in), field.n) ELSE Fails
      [] field.f = "counted" ->
            IF ~(NextIsTag(in, field.tag) /\ NextIsDatum(Tail(in))) THEN Fails
            ELSE IF field.tag = "channelMap" THEN ReadChannels(Tail(Tail(in)), Head(Tail(in)).datum)
            ELSE ReadData(Tail(Tail(in)), Head(Tail(in)).datum)
      [] field.f = "propList" -> IF NextIsTag(in, "propList") THEN ReadProps(Tail(in), << >>) ELSE Fails
      [] field.f = "many" ->
            LET n == ReadTagged(in, field.tag)
            IN  IF n.ok THEN ReadMany(n.rest, field.fields, n.v, << >>) ELSE Fails
      [] field.f = "struct" ->
            IF NextIsTag(in, field.tag) THEN ReadFields(Tail(in), field.fields, << >>) ELSE Fails
      [] field.f = "activePort" ->
            IF Last(sofar) # << >> THEN ReadTagged(in, "string")
            ELSE IF NextIsTag(in, "null") THEN Read(0, Tail(in)) ELSE Fails

ReadFields(in, fields, sofar) ==
    IF Len(sofar) = Len(fields) THEN Read(sofar, in)
    ELSE LET r == ReadField(in, fields[Len(sofar) + 1], sofar)
         IN  IF r.ok THEN ReadFields(r.rest, fields, Append(sofar, r.v)) ELSE Fails

(* Sinks, Sources, SinkInputs and so on: records up to the end of the packet. *)
RECURSIVE ReadList(_, _, _)
ReadList(in, fields, sofar) ==
    IF in = << >> THEN Read(sofar, in)
    ELSE LET r == ReadFields(in, fields, << >>)
         IN  IF r.ok THEN ReadList(r.rest, fields, Append(sofar, r.v)) ELSE Fails

-----------------------------------------------------------------------------
(* Records of a few shapes, from one number for the strings, one for the
   counts and one for the flags. *)
RECURSIVE Sample(_, _, _, _)
SampleField(field, str, n, flag) ==
    CASE field.f = "tagged" -> IF field.tag = "string" THEN str ELSE 7
      [] field.f = "bool" -> flag
      [] field.f = "fixed" -> [i \in 1 .. field.n |-> i]
      [] field.f = "counted" -> [i \in 1 .. n |-> i]
      [] field.f = "propList" -> [i \in 1 .. n |-> <<i, flag + 1>>]
      [] field.f = "many" -> [i \in 1 .. n |-> Sample(field.fields, str, n, flag)]
      [] field.f = "struct" -> Sample(field.fields, str, n, flag)
      [] field.f = "activePort" -> IF n = 0 THEN 0 ELSE str
Sample(fields, str, n, flag) == [i \in DOMAIN fields |-> SampleField(fields[i], str, n, flag)]

(* What the server writes is read back, and a list that is cut short anywhere
   but between two records is an error. *)
ReadsBack(fields, records) ==
    ReadList(FlattenSeq([i \in DOMAIN records |-> Written(fields, records[i])]), fields, << >>)
        = Read(records, << >>)

CutIsRefused(fields, r) ==
    LET p == Written(fields, r)
    IN  \A n \in 1 .. Len(p) - 1 : ~ReadList(SubSeq(p, 1, n), fields, << >>).ok
=============================================================================
