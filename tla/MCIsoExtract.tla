---------------------------- MODULE MCIsoExtract ----------------------------
(* Images of up to five entries over a directory, a file in it and a file. *)
EXTENDS IsoExtract

CONSTANTS dir, inner, outer

MCAbove == [p \in Paths |-> IF p = inner THEN {dir} ELSE {}]

LOCAL E(kind, at) == [kind |-> kind, at |-> at]
LOCAL Archived(es) == [udf |-> FALSE, entries |-> es]

\* A plain tree; one with all that is passed over; names that collide; a file
\* where a directory is to be; refused names around a file; and a UDF image.
MCImages ==
  {Archived(<<E("dir", dir), E("file", inner), E("file", outer)>>),
   Archived(<<E("bad", outer), E("special", outer), E("file", inner),
              E("link", outer)>>),
   Archived(<<E("file", outer), E("file", outer), E("twin", inner),
              E("link", inner), E("bad", inner)>>),
   Archived(<<E("link", outer), E("file", outer)>>),
   Archived(<<E("file", dir), E("dir", dir), E("file", inner)>>),
   Archived(<<E("bad", inner), E("file", outer), E("bad", outer)>>),
   [udf |-> TRUE,
    entries |-> <<E("dir", dir), E("file", inner), E("file", outer)>>]}
=============================================================================
