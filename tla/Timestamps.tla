------------------------------ MODULE Timestamps ------------------------------
(***************************************************************************)
(* The column last_used_at (crates/storage/src/repository.rs): a text, the *)
(* RFC 3339 form chrono gives the wall clock, by which SQLite orders the   *)
(* rows byte by byte. Repository keeps the rank of a row instead; here the *)
(* ranks are those of the texts, and the statements are shown to be those  *)
(* of Repository.                                                          *)
(*                                                                         *)
(* The form has no fixed width: to_rfc3339 prints the fraction of a second *)
(* with no, three, six or nine digits, as few groups of three as it needs, *)
(* and then the offset +00:00. A time is its second and these three        *)
(* groups, a text the sequence of their codes: a group stands for three    *)
(* digits, and is compared with "." and "+" by its first one.              *)
(***************************************************************************)
EXTENDS ClipTypes

CONSTANTS
  NoRow,        \* As in Repository.
  SearchLimit,
  Times         \* The readings of the clock: <<second, milli, micro, nano>>.

ASSUME TimesAssumption ==
  /\ Times \subseteq Nat \X Nat \X Nat \X Nat
  /\ NoRow \notin [payload : Payload, pinned : BOOLEAN, favorite : BOOLEAN, deleted : BOOLEAN]

VARIABLES
  rows,    \* As in Repository.
  clock,   \* The wall clock.
  stamp    \* stamp[id]: the text in the column last_used_at of id.

tvars == <<rows, clock, stamp>>

\* The order of ASCII: "+" before "." before the digits before "Z".
Plus  == 43
Dot   == 46
Digit == 48

Group(v) == Digit + v

\* to_rfc3339, up to the offset: as many groups as the last one that is not zero.
Written(t, offset) ==
  CASE t[4] # 0                              -> <<Group(t[1]), Dot, Group(t[2]), Group(t[3]), Group(t[4]), offset>>
    [] t[4] = 0 /\ t[3] # 0                  -> <<Group(t[1]), Dot, Group(t[2]), Group(t[3]), offset>>
    [] t[4] = 0 /\ t[3] = 0 /\ t[2] # 0      -> <<Group(t[1]), Dot, Group(t[2]), offset>>
    [] t[4] = 0 /\ t[3] = 0 /\ t[2] = 0      -> <<Group(t[1]), offset>>

\* A text that ends in "Z", as to_rfc3339_opts could write it.
TextZ(t) == Written(t, 90)

\* DateTime::to_rfc3339.
Text(t) == Written(t, Plus)

\* memcmp, and the shorter text first.
Less(a, b) ==
  \/ \E n \in DOMAIN a \cap DOMAIN b : a[n] < b[n] /\ \A m \in 1 .. n - 1 : a[m] = b[m]
  \/ Len(a) < Len(b) /\ \A m \in DOMAIN a : a[m] = b[m]

NoStamp == << >>

TimesInit ==
  /\ rows = [id \in Ids |-> NoRow]
  /\ stamp = [id \in Ids |-> NoStamp]
  /\ clock \in Times

Has(id) == rows[id] # NoRow

-----------------------------------------------------------------------------
\* The clock moves on: seconds come and go, fractions with them.
Earlier(s, t) == \E n \in 1 .. 4 : s[n] < t[n] /\ \A m \in 1 .. n - 1 : s[m] = t[m]

\* Utc::now, later than at the last write.
Now(t) == Earlier(clock, t) /\ clock' = t

\* upsert_item.
UpsertItem(p) ==
  \E t \in Times :
    /\ Now(t)
    /\ \/ \E id \in Ids :
            /\ Has(id) /\ rows[id].payload = p
            /\ rows' = [rows EXCEPT ![id].deleted = FALSE]
            /\ stamp' = [stamp EXCEPT ![id] = Text(t)]
       \/ /\ \A id \in Ids : Has(id) => rows[id].payload # p
          /\ \E id \in Ids :
               /\ ~Has(id)
               /\ rows' = [rows EXCEPT ![id] =
                    [payload |-> p, pinned |-> FALSE, favorite |-> FALSE, deleted |-> FALSE]]
               /\ stamp' = [stamp EXCEPT ![id] = Text(t)]

\* A mark_used that rounds the time down to the second.
MarkUsedRounded(id) ==
  \E t \in Times :
    /\ Has(id) /\ Now(t)
    /\ stamp' = [stamp EXCEPT ![id] = Text(<<t[1], 0, 0, 0>>)]
    /\ UNCHANGED rows

\* mark_used.
MarkUsed(id) ==
  \E t \in Times :
    /\ Has(id) /\ Now(t)
    /\ stamp' = [stamp EXCEPT ![id] = Text(t)]
    /\ UNCHANGED rows

\* soft_delete: its time goes to another column, which nothing is ordered by.
SoftDelete(id) ==
  /\ Has(id)
  /\ rows' = [rows EXCEPT ![id].deleted = TRUE]
  /\ UNCHANGED <<clock, stamp>>

TimesNext ==
  \/ \E p \in Payload : UpsertItem(p)
  \/ \E id \in Ids : MarkUsed(id) \/ SoftDelete(id)

TimesSpec == TimesInit /\ [][TimesNext]_tvars

-----------------------------------------------------------------------------
(***************************************************************************)
(* Properties.                                                             *)
(***************************************************************************)
\* ORDER BY last_used_at DESC: the rank of a row is its place in the order of
\* the texts.
Ranks ==
  [id \in Ids |-> IF Has(id) THEN 1 + Cardinality({j \in Ids : Has(j) /\ Less(stamp[id], stamp[j])})
                             ELSE 0]

R == INSTANCE Repository WITH lastUsed <- Ranks

TableNext ==
  \/ \E p \in Payload : R!Upsert(p)
  \/ \E id \in Ids : R!Stored(id) /\ (R!MarkUsed(id) \/ R!SoftDelete(id))

\* The order of the texts is the order of use: ranked by their texts, with or
\* without fractions, the rows behave as Repository says, whose ranks are by use.
RanksByUse == R!StoreInit /\ [][TableNext]_<<rows, Ranks>>
=============================================================================
