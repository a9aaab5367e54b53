----------------------------- MODULE SchemaProofs -----------------------------
(***************************************************************************)
(* Proofs about Schema: however many migrations are run and however many   *)
(* of them are cut short, no statement is refused and the catalog is whole *)
(* between them.  The argument: while a migration runs, the catalog is     *)
(* what its statements so far have made of the one it began with, and each *)
(* table is created after those it names (NamedBefore), each type by one   *)
(* table (OwnEnums), each index for one table (OwnIndexes).                *)
(***************************************************************************)
EXTENDS Schema, SequenceTheorems, TLAPS

Kind == {Accounts[i] : i \in 1 .. 7} \union {Contents[i] : i \in 1 .. 9}

LEMMA TablesAre ==
  /\ AllTables \in Seq(Kind) /\ Len(AllTables) = 16
  /\ AllTables[1] = Table("organizations", {}, {}, 0)
  /\ AllTables[2] = Table("users", {"organizations"}, {"user_role"}, 2)
  /\ AllTables[3] = Table("api_keys", {"users"}, {}, 1)
  /\ AllTables[4] = Table("audit_logs", {"organizations", "users"}, {}, 3)
  /\ AllTables[5] = Table("meetings", {"organizations", "users"}, {"meeting_status"}, 3)
  /\ AllTables[6] = Table("password_reset_tokens", {"users"}, {}, 1)
  /\ AllTables[7] = Table("refresh_tokens", {"users"}, {}, 1)
  /\ AllTables[8] = Table("action_items", {"users", "meetings"},
                          {"action_item_priority", "action_item_status"}, 2)
  /\ AllTables[9] = Table("chat_sessions", {"meetings", "users"}, {}, 2)
  /\ AllTables[10] = Table("embedding_chunks", {"meetings"}, {}, 1)
  /\ AllTables[11] = Table("files", {"meetings"}, {"file_type"}, 1)
  /\ AllTables[12] = Table("insights", {"meetings"}, {"insight_type"}, 1)
  /\ AllTables[13] = Table("speakers", {"meetings"}, {}, 1)
  /\ AllTables[14] = Table("summaries", {"meetings"}, {"summary_type"}, 1)
  /\ AllTables[15] = Table("chat_messages", {"chat_sessions"}, {"chat_role"}, 1)
  /\ AllTables[16] = Table("transcript_segments", {"meetings", "speakers"}, {}, 2)
<1>1. Accounts \in Seq({Accounts[i] : i \in 1 .. 7}) /\ Len(Accounts) = 7
  BY DEF Accounts
<1>2. Contents \in Seq({Contents[i] : i \in 1 .. 9}) /\ Len(Contents) = 9
  BY DEF Contents
<1>3. /\ AllTables \in Seq(Kind) /\ Len(AllTables) = 16
      /\ \A i \in 1 .. 16 : AllTables[i] = IF i <= 7 THEN Accounts[i] ELSE Contents[i - 7]
  <2>1. Accounts \in Seq(Kind) /\ Contents \in Seq(Kind)
    BY <1>1, <1>2, SeqMonotonic DEF Kind
  <2>2. /\ Accounts \o Contents \in Seq(Kind)
        /\ Len(Accounts \o Contents) = Len(Accounts) + Len(Contents)
        /\ \A i \in 1 .. Len(Accounts) + Len(Contents) :
             (Accounts \o Contents)[i] =
               IF i <= Len(Accounts) THEN Accounts[i] ELSE Contents[i - Len(Accounts)]
    BY <2>1, ConcatProperties
  <2>3. AllTables = Accounts \o Contents
    BY DEF AllTables
  <2>4. Len(Accounts) = 7 /\ Len(Contents) = 9 /\ Len(Accounts) + Len(Contents) = 16
    BY <1>1, <1>2
  <2>5. Len(AllTables) = 16 /\ AllTables \in Seq(Kind)
    BY <2>2, <2>3, <2>4
  <2>6. \A i \in 1 .. 16 : AllTables[i] = IF i <= 7 THEN Accounts[i] ELSE Contents[i - 7]
    BY <2>2, <2>3, <2>4
  <2> QED BY <2>5, <2>6
<1>4. /\ \A i \in 1 .. 7 : AllTables[i] = Accounts[i]
      /\ \A i \in 1 .. 9 : AllTables[i + 7] = Contents[i]
  BY <1>3
<1>5. /\ AllTables[8] = Contents[1] /\ AllTables[9] = Contents[2] /\ AllTables[10] = Contents[3]
      /\ AllTables[11] = Contents[4] /\ AllTables[12] = Contents[5] /\ AllTables[13] = Contents[6]
      /\ AllTables[14] = Contents[7] /\ AllTables[15] = Contents[8] /\ AllTables[16] = Contents[9]
  BY <1>3
<1> QED BY <1>3, <1>4, <1>5 DEF Accounts, Contents

LEMMA Upto16 == \A i \in 1 .. 16 :
  \/ i = 1 \/ i = 2 \/ i = 3 \/ i = 4 \/ i = 5 \/ i = 6 \/ i = 7 \/ i = 8 \/ i = 9
  \/ i = 10 \/ i = 11 \/ i = 12 \/ i = 13 \/ i = 14 \/ i = 15 \/ i = 16
OBVIOUS

(* Tables have different names, *)
LEMMA OwnNames ==
  \A i, j \in 1 .. 16 : AllTables[i].name = AllTables[j].name => i = j
<1> DEFINE Number(n) ==
             IF n = "organizations" THEN 1 ELSE IF n = "users" THEN 2 ELSE
             IF n = "api_keys" THEN 3 ELSE IF n = "audit_logs" THEN 4 ELSE
             IF n = "meetings" THEN 5 ELSE IF n = "password_reset_tokens" THEN 6 ELSE
             IF n = "refresh_tokens" THEN 7 ELSE IF n = "action_items" THEN 8 ELSE
             IF n = "chat_sessions" THEN 9 ELSE IF n = "embedding_chunks" THEN 10 ELSE
             IF n = "files" THEN 11 ELSE IF n = "insights" THEN 12 ELSE
             IF n = "speakers" THEN 13 ELSE IF n = "summaries" THEN 14 ELSE
             IF n = "chat_messages" THEN 15 ELSE 16
<1>1. \A i \in 1 .. 16 : Number(AllTables[i].name) = i
  BY SMTT(60), TablesAre, Upto16 DEF Table
<1> HIDE DEF Number
<1> QED BY <1>1

(* name tables that were created before them, *)
LEMMA NamedBefore ==
  \A i \in 1 .. 16 : \A n \in AllTables[i].refs : \E j \in 1 .. i - 1 : AllTables[j].name = n
BY SMTT(60), TablesAre, Upto16 DEF Table

(* and have each their own types. *)
LEMMA OwnEnums ==
  \A i, j \in 1 .. 16 : i # j => AllTables[i].enums \intersect AllTables[j].enums = {}
<1> DEFINE Owner(e) ==
             IF e = "user_role" THEN 2 ELSE IF e = "meeting_status" THEN 5
             ELSE IF e \in {"action_item_priority", "action_item_status"} THEN 8
             ELSE IF e = "file_type" THEN 11 ELSE IF e = "insight_type" THEN 12
             ELSE IF e = "summary_type" THEN 14 ELSE 15
<1>1. \A i \in 1 .. 16 : \A e \in AllTables[i].enums : Owner(e) = i
  BY SMTT(60), TablesAre, Upto16 DEF Table
<1> HIDE DEF Owner
<1> QED BY <1>1

LEMMA OwnIndexes ==
  \A i, j \in 1 .. 16 : i # j => IndexesOf(AllTables[i]) \intersect IndexesOf(AllTables[j]) = {}
<1> SUFFICES ASSUME NEW i \in 1 .. 16, NEW j \in 1 .. 16, i # j,
                    NEW x \in IndexesOf(AllTables[i]), x \in IndexesOf(AllTables[j])
             PROVE  FALSE
  OBVIOUS
<1>1. PICK m \in 1 .. AllTables[i].indexed : x = <<AllTables[i].name, m>>
  BY DEF IndexesOf
<1>2. PICK n \in 1 .. AllTables[j].indexed : x = <<AllTables[j].name, n>>
  BY DEF IndexesOf
<1>3. AllTables[i].name = AllTables[j].name
  BY <1>1, <1>2
<1> QED BY <1>3, OwnNames

-----------------------------------------------------------------------------
(* The scripts, statement by statement *)

Statements == {Create(t) : t \in Kind} \union {Index(t) : t \in Kind}

LEMMA UpgradeIs ==
  /\ Upgrade \in Seq(Statements) /\ Len(Upgrade) = 32
  /\ \A k \in 0 .. 15 : /\ Upgrade[2 * k + 1] = Create(AllTables[k + 1])
                        /\ Upgrade[2 * k + 2] = Index(AllTables[k + 1])
<1>1. \A i \in 1 .. 16 : AllTables[i] \in Kind
  BY TablesAre, LenProperties, ElementOfSeq
<1>2. Upgrade = [n \in 1 .. 32 |->
        IF n % 2 = 1 THEN Create(AllTables[(n + 1) \div 2]) ELSE Index(AllTables[(n + 1) \div 2])]
  <2>1. 2 * Len(AllTables) = 32
    BY TablesAre
  <2> QED BY <2>1 DEF Upgrade
<1>3. \A n \in 1 .. 32 : (n + 1) \div 2 \in 1 .. 16
  OBVIOUS
<1>4. Upgrade \in [1 .. 32 -> Statements]
  <2>1. ASSUME NEW n \in 1 .. 32
        PROVE  (IF n % 2 = 1 THEN Create(AllTables[(n + 1) \div 2])
                              ELSE Index(AllTables[(n + 1) \div 2])) \in Statements
    <3>1. PICK t \in Kind : t = AllTables[(n + 1) \div 2]
      BY <1>1, <1>3
    <3> QED BY Zenon, <3>1 DEF Statements
  <2> QED BY <1>2, <2>1
<1>5. ASSUME NEW k \in 0 .. 15
      PROVE  /\ Upgrade[2 * k + 1] = Create(AllTables[k + 1])
             /\ Upgrade[2 * k + 2] = Index(AllTables[k + 1])
  <2>1. PICK a : a = 2 * k + 1
    OBVIOUS
  <2>2. PICK b : b = 2 * k + 2
    OBVIOUS
  <2>3. PICK i : i = k + 1
    OBVIOUS
  <2>4. a \in 1 .. 32 /\ a % 2 = 1 /\ (a + 1) \div 2 = i
    BY <2>1, <2>3
  <2>5. b \in 1 .. 32 /\ b % 2 # 1 /\ (b + 1) \div 2 = i
    BY <2>2, <2>3
  <2>6. Upgrade[a] = Create(AllTables[i]) /\ Upgrade[b] = Index(AllTables[i])
    BY <1>2, <2>4, <2>5
  <2> QED BY Zenon, <2>1, <2>2, <2>3, <2>6
<1>6. Upgrade \in Seq(Statements) /\ Len(Upgrade) = 32
  <2>1. Upgrade \in Seq(Statements) /\ DOMAIN Upgrade = 1 .. 32
    <3>1. 32 \in Nat
      OBVIOUS
    <3> QED BY Zenon, <1>4, <3>1, SeqDef
  <2>2. Len(Upgrade) \in Nat /\ DOMAIN Upgrade = 1 .. Len(Upgrade)
    BY Zenon, <2>1, LenProperties
  <2> QED BY <2>1, <2>2
<1> QED BY Zenon, <1>5, <1>6

DropTypes ==
  << DropType("user_role"), DropType("meeting_status"), DropType("file_type"),
     DropType("summary_type"), DropType("insight_type"), DropType("action_item_priority"),
     DropType("action_item_status"), DropType("chat_role") >>

Steps == {DropIndex(t) : t \in Kind} \union {Drop(t) : t \in Kind}
           \union {DropTypes[i] : i \in 1 .. 8}

(* Two statements of downgrade to the last of the first m tables *)
LEMMA DropsAre ==
  /\ Drops \in Seq(Steps) /\ Len(Drops) = 32
  /\ \A m \in 1 .. 16 : /\ Drops[33 - 2 * m] = DropIndex(AllTables[m])
                        /\ Drops[34 - 2 * m] = Drop(AllTables[m])
<1>1. /\ DOMAIN AllTables = 1 .. 16 /\ Len(AllTables) = 16
      /\ \A i \in 1 .. 16 : AllTables[i] \in Kind
  BY TablesAre, LenProperties, ElementOfSeq
<1>2. \A i \in 1 .. 16 : Reverse(AllTables)[i] = AllTables[17 - i]
  BY <1>1 DEF Reverse
<1>3. Drops = [n \in 1 .. 32 |->
        IF n % 2 = 1 THEN DropIndex(Reverse(AllTables)[(n + 1) \div 2])
                     ELSE Drop(Reverse(AllTables)[(n + 1) \div 2])]
  <2>1. 2 * Len(AllTables) = 32
    BY <1>1
  <2> QED BY <2>1 DEF Drops
<1>4. \A n \in 1 .. 32 : (n + 1) \div 2 \in 1 .. 16 /\ 17 - (n + 1) \div 2 \in 1 .. 16
  OBVIOUS
<1>5. Drops \in [1 .. 32 -> Steps]
  <2>1. ASSUME NEW n \in 1 .. 32
        PROVE  (IF n % 2 = 1 THEN DropIndex(Reverse(AllTables)[(n + 1) \div 2])
                              ELSE Drop(Reverse(AllTables)[(n + 1) \div 2])) \in Steps
    <3>1. PICK t \in Kind : t = Reverse(AllTables)[(n + 1) \div 2]
      BY <1>1, <1>2, <1>4
    <3> QED BY Zenon, <3>1 DEF Steps
  <2> QED BY <1>3, <2>1
<1>6. ASSUME NEW m \in 1 .. 16
      PROVE  /\ Drops[33 - 2 * m] = DropIndex(AllTables[m])
             /\ Drops[34 - 2 * m] = Drop(AllTables[m])
  <2>1. PICK a : a = 33 - 2 * m
    OBVIOUS
  <2>2. PICK b : b = 34 - 2 * m
    OBVIOUS
  <2>3. PICK i : i = 17 - m /\ i \in 1 .. 16 /\ 17 - i = m
    OBVIOUS
  <2>4. a \in 1 .. 32 /\ a % 2 = 1 /\ (a + 1) \div 2 = i
    BY <2>1, <2>3
  <2>5. b \in 1 .. 32 /\ b % 2 # 1 /\ (b + 1) \div 2 = i
    BY <2>2, <2>3
  <2>6. Reverse(AllTables)[i] = AllTables[m]
    BY <1>2, <2>3
  <2>7. Drops[a] = DropIndex(AllTables[m])
    BY <1>3, <2>4, <2>6
  <2>8. Drops[b] = Drop(AllTables[m])
    BY <1>3, <2>5, <2>6
  <2> QED BY Zenon, <2>1, <2>2, <2>7, <2>8
<1>7. Drops \in Seq(Steps) /\ Len(Drops) = 32
  <2>1. Drops \in Seq(Steps) /\ DOMAIN Drops = 1 .. 32
    <3>1. 32 \in Nat
      OBVIOUS
    <3> QED BY Zenon, <1>5, <3>1, SeqDef
  <2>2. Len(Drops) \in Nat /\ DOMAIN Drops = 1 .. Len(Drops)
    BY Zenon, <2>1, LenProperties
  <2> QED BY <2>1, <2>2
<1> QED BY Zenon, <1>6, <1>7

LEMMA DowngradeIs ==
  /\ Downgrade \in Seq(Steps) /\ Len(Downgrade) = 40
  /\ \A m \in 1 .. 16 : /\ Downgrade[33 - 2 * m] = DropIndex(AllTables[m])
                        /\ Downgrade[34 - 2 * m] = Drop(AllTables[m])
  /\ \A i \in 1 .. 8 : Downgrade[i + 32] = DropTypes[i]
<1>1. DropTypes \in Seq(Steps) /\ Len(DropTypes) = 8
  <2>1. DropTypes \in Seq({DropTypes[i] : i \in 1 .. 8}) /\ Len(DropTypes) = 8
    BY DEF DropTypes
  <2> QED BY <2>1, SeqMonotonic DEF Steps
<1>2. Downgrade = Drops \o DropTypes
  BY DEF Downgrade, DropTypes
<1>3. /\ Drops \o DropTypes \in Seq(Steps)
      /\ Len(Drops \o DropTypes) = Len(Drops) + Len(DropTypes)
      /\ \A i \in 1 .. Len(Drops) + Len(DropTypes) :
           (Drops \o DropTypes)[i] = IF i <= Len(Drops) THEN Drops[i] ELSE DropTypes[i - Len(Drops)]
  BY <1>1, DropsAre, ConcatProperties
<1>4. Len(Drops) = 32 /\ Len(DropTypes) = 8 /\ Len(Drops) + Len(DropTypes) = 40
  BY <1>1, DropsAre
<1>5. Downgrade \in Seq(Steps) /\ Len(Downgrade) = 40
  BY <1>2, <1>3, <1>4
<1>6. \A i \in 1 .. 40 : Downgrade[i] = IF i <= 32 THEN Drops[i] ELSE DropTypes[i - 32]
  BY <1>2, <1>3, <1>4
<1>7. ASSUME NEW m \in 1 .. 16
      PROVE  /\ Downgrade[33 - 2 * m] = DropIndex(AllTables[m])
             /\ Downgrade[34 - 2 * m] = Drop(AllTables[m])
  <2>1. PICK a : a = 33 - 2 * m /\ a \in 1 .. 40 /\ a <= 32
    OBVIOUS
  <2>2. PICK b : b = 34 - 2 * m /\ b \in 1 .. 40 /\ b <= 32
    OBVIOUS
  <2>3. Downgrade[a] = Drops[a] /\ Downgrade[b] = Drops[b]
    BY <1>6, <2>1, <2>2
  <2>4. Drops[a] = DropIndex(AllTables[m]) /\ Drops[b] = Drop(AllTables[m])
    BY Zenon, <2>1, <2>2, DropsAre
  <2> QED BY Zenon, <2>1, <2>2, <2>3, <2>4
<1>8. ASSUME NEW i \in 1 .. 8 PROVE Downgrade[i + 32] = DropTypes[i]
  <2>1. i + 32 \in 1 .. 40 /\ ~(i + 32 <= 32) /\ (i + 32) - 32 = i
    OBVIOUS
  <2> QED BY <1>6, <2>1
<1> QED BY <1>5, <1>7, <1>8

LEMMA StatementsAre ==
  /\ \A t : Create(t).op = "create" /\ Create(t).table = t
  /\ \A t : Index(t).op = "index" /\ Index(t).table = t
  /\ \A t : DropIndex(t).op = "drop index" /\ DropIndex(t).table = t
  /\ \A t : Drop(t).op = "drop" /\ Drop(t).table = t
  /\ \A e : DropType(e).op = "drop type" /\ DropType(e).type = e
BY Zenon DEF Create, Index, DropIndex, Drop, DropType

(* The types dropped by the first n of DropTypes *)
DroppedTo(n) == {DropTypes[i].type : i \in 1 .. n}

LEMMA DropsAllTypes ==
  /\ \A i \in 1 .. 8 : DropTypes[i].op = "drop type"
  /\ Enums \subseteq DroppedTo(8)
<1>1. /\ DropTypes[1] = DropType("user_role") /\ DropTypes[2] = DropType("meeting_status")
      /\ DropTypes[3] = DropType("file_type") /\ DropTypes[4] = DropType("summary_type")
      /\ DropTypes[5] = DropType("insight_type")
      /\ DropTypes[6] = DropType("action_item_priority")
      /\ DropTypes[7] = DropType("action_item_status") /\ DropTypes[8] = DropType("chat_role")
  BY DEF DropTypes
<1>2. \A e : DropType(e).op = "drop type" /\ DropType(e).type = e
  BY Zenon, StatementsAre
<1>3. DropTypes[1].op = "drop type" /\ DropTypes[2].op = "drop type"
  BY Zenon, <1>1, <1>2
<1>4. DropTypes[3].op = "drop type" /\ DropTypes[4].op = "drop type"
  BY Zenon, <1>1, <1>2
<1>5. DropTypes[5].op = "drop type" /\ DropTypes[6].op = "drop type"
  BY Zenon, <1>1, <1>2
<1>6. DropTypes[7].op = "drop type" /\ DropTypes[8].op = "drop type"
  BY Zenon, <1>1, <1>2
<1>7. /\ DropTypes[1].type = "user_role" /\ DropTypes[2].type = "meeting_status"
      /\ DropTypes[3].type = "file_type" /\ DropTypes[4].type = "summary_type"
      /\ DropTypes[5].type = "insight_type" /\ DropTypes[6].type = "action_item_priority"
      /\ DropTypes[7].type = "action_item_status" /\ DropTypes[8].type = "chat_role"
  BY Zenon, <1>1, <1>2
<1>8. \A i \in 1 .. 8 : i = 1 \/ i = 2 \/ i = 3 \/ i = 4 \/ i = 5 \/ i = 6 \/ i = 7 \/ i = 8
  OBVIOUS
<1>9. \A i \in 1 .. 8 : DropTypes[i].op = "drop type"
  BY <1>3, <1>4, <1>5, <1>6, <1>8
<1>10. {"user_role", "meeting_status", "file_type", "summary_type", "insight_type",
        "action_item_priority", "action_item_status", "chat_role"} \subseteq DroppedTo(8)
  BY <1>7 DEF DroppedTo
<1>11. \A i \in 1 .. 16 : AllTables[i].enums \subseteq
        {"user_role", "meeting_status", "file_type", "summary_type", "insight_type",
         "action_item_priority", "action_item_status", "chat_role"}
  BY SMTT(60), TablesAre, Upto16 DEF Table
<1>12. DOMAIN AllTables = 1 .. 16
  BY TablesAre, LenProperties
<1>13. Enums \subseteq DroppedTo(8)
  BY <1>10, <1>11, <1>12 DEF Enums
<1> QED BY <1>9, <1>13

-----------------------------------------------------------------------------
(* The catalog along a migration *)

UpTo(k) == {AllTables[i] : i \in 1 .. k}
TypesTo(k) == UNION {AllTables[i].enums : i \in 1 .. k}
IndexesTo(k) == UNION {IndexesOf(AllTables[i]) : i \in 1 .. k}

Empty == [tables |-> {}, types |-> {}, indexes |-> {}, version |-> "base"]
Full == [tables |-> UpTo(16), types |-> Enums, indexes |-> IndexesTo(16), version |-> "head"]

AtRest == script = <<>> /\ (Catalog = Empty \/ Catalog = Full)

(* The first i tables have been created, the first k have their indexes. *)
Upgrading(i, k) ==
  /\ script = SubSeq(Upgrade, i + k + 1, 32) /\ before = Empty
  /\ tables = UpTo(i) /\ types = TypesTo(i) /\ indexes = IndexesTo(k) /\ version = "base"

(* The first i tables are left, the first k with their indexes; then, without *)
(* any table, n types have been dropped.                                      *)
Downgrading(i, k) ==
  /\ script = SubSeq(Downgrade, (32 - i - k) + 1, 40) /\ before = Full
  /\ tables = UpTo(i) /\ types = Enums /\ indexes = IndexesTo(k) /\ version = "head"

Cleaning(n) ==
  /\ script = SubSeq(Downgrade, (32 + n) + 1, 40) /\ before = Full
  /\ tables = {} /\ types = Enums \ DroppedTo(n) /\ indexes = {} /\ version = "head"

SchemaInv ==
  /\ NothingRefused
  /\ \/ AtRest
     \/ \E k \in 0 .. 15 : Upgrading(k, k) \/ Upgrading(k + 1, k)
     \/ \E k \in 0 .. 15 : Downgrading(k + 1, k + 1) \/ Downgrading(k + 1, k)
     \/ \E n \in 0 .. 7 : Cleaning(n)

LEMMA Whole ==
  /\ UpTo(0) = {} /\ TypesTo(0) = {} /\ IndexesTo(0) = {} /\ DroppedTo(0) = {}
  /\ TypesTo(16) = Enums /\ IndexesTo(16) = AllIndexes
  /\ UpTo(16) = {AllTables[i] : i \in DOMAIN AllTables}
<1>1. DOMAIN AllTables = 1 .. 16
  BY TablesAre, LenProperties
<1> QED BY <1>1 DEF UpTo, TypesTo, IndexesTo, DroppedTo, Enums, AllIndexes

(* One table more *)
LEMMA OneMore ==
  ASSUME NEW k \in 0 .. 15
  PROVE  /\ UpTo(k + 1) = UpTo(k) \union {AllTables[k + 1]}
         /\ UpTo(k) = UpTo(k + 1) \ {AllTables[k + 1]}
         /\ TypesTo(k + 1) = TypesTo(k) \union AllTables[k + 1].enums
         /\ AllTables[k + 1].enums \intersect TypesTo(k) = {}
         /\ IndexesTo(k + 1) = IndexesTo(k) \union IndexesOf(AllTables[k + 1])
         /\ IndexesOf(AllTables[k + 1]) \intersect IndexesTo(k) = {}
         /\ IndexesTo(k) = IndexesTo(k + 1) \ IndexesOf(AllTables[k + 1])
<1>1. /\ k + 1 \in 1 .. 16
      /\ \A i : i \in 1 .. k + 1 <=> i \in 1 .. k \/ i = k + 1
      /\ \A i \in 1 .. k : i \in 1 .. 16 /\ i # k + 1
  OBVIOUS
<1>2. UpTo(k + 1) = UpTo(k) \union {AllTables[k + 1]}
  BY <1>1 DEF UpTo
<1>3. AllTables[k + 1] \notin UpTo(k)
  BY <1>1, OwnNames DEF UpTo
<1>4. TypesTo(k + 1) = TypesTo(k) \union AllTables[k + 1].enums
  BY <1>1 DEF TypesTo
<1>5. AllTables[k + 1].enums \intersect TypesTo(k) = {}
  BY <1>1, OwnEnums DEF TypesTo
<1>6. IndexesTo(k + 1) = IndexesTo(k) \union IndexesOf(AllTables[k + 1])
  BY <1>1 DEF IndexesTo
<1>7. IndexesOf(AllTables[k + 1]) \intersect IndexesTo(k) = {}
  BY <1>1, OwnIndexes DEF IndexesTo
<1> QED BY <1>2, <1>3, <1>4, <1>5, <1>6, <1>7

(* What is left of a script after k of its statements *)
LEMMA RestOf ==
  ASSUME NEW S, NEW all \in Seq(S), NEW k \in Nat, k < Len(all),
         NEW rest, rest = SubSeq(all, k + 1, Len(all))
  PROVE  /\ Len(rest) = Len(all) - k /\ rest # <<>>
         /\ Head(rest) = all[k + 1] /\ Tail(rest) = SubSeq(all, k + 2, Len(all))
<1>1. Len(all) \in Nat /\ k + 1 \in 1 .. Len(all) /\ Len(all) \in k + 1 .. Len(all)
  BY LenProperties
<1>2. Head(rest) = all[k + 1] /\ Tail(rest) = SubSeq(all, (k + 1) + 1, Len(all))
  BY <1>1, HeadTailOfSubSeq
<1>3. (k + 1) + 1 = k + 2 /\ Len(all) - (k + 1) + 1 = Len(all) - k
  BY <1>1
<1>4. \A i \in k + 1 .. Len(all) : all[i] \in S
  BY <1>1, ElementOfSeq
<1>5. Len(rest) = Len(all) - (k + 1) + 1
  <2>1. k + 1 \in Int /\ Len(all) \in Int /\ k + 1 <= Len(all)
    BY <1>1
  <2>2. Len(SubSeq(all, k + 1, Len(all))) =
          IF k + 1 <= Len(all) THEN Len(all) - (k + 1) + 1 ELSE 0
    BY Zenon, <1>4, <2>1, SubSeqProperties
  <2>3. Len(SubSeq(all, k + 1, Len(all))) = Len(all) - (k + 1) + 1
    BY Zenon, <2>1, <2>2
  <2>4. rest = SubSeq(all, k + 1, Len(all))
    OBVIOUS
  <2> QED BY Zenon, <2>3, <2>4
<1>6. Len(rest) = Len(all) - k /\ Len(rest) # 0
  <2>1. PICK n \in Nat : n = Len(all)
    BY <1>1
  <2>2. n - (k + 1) + 1 = n - k /\ n - k # 0
    BY <2>1
  <2> QED BY Zenon, <1>5, <2>1, <2>2
<1>7. rest # <<>>
  BY <1>6
<1> QED BY <1>2, <1>3, <1>6, <1>7

(* The next statement of a script, and what is left after it *)
LEMMA NextUp ==
  ASSUME NEW k \in 0 .. 31, script = SubSeq(Upgrade, k + 1, 32)
  PROVE  /\ script # <<>> /\ Head(script) = Upgrade[k + 1]
         /\ Tail(script) = SubSeq(Upgrade, k + 2, 32) /\ Len(script) = 32 - k
<1>1. Upgrade \in Seq(Statements) /\ Len(Upgrade) = 32
  BY Zenon, UpgradeIs
<1>2. k < 32 /\ k \in Nat
  OBVIOUS
<1> QED BY Zenon, <1>1, <1>2, RestOf

LEMMA NextDown ==
  ASSUME NEW k \in 0 .. 39, script = SubSeq(Downgrade, k + 1, 40)
  PROVE  /\ script # <<>> /\ Head(script) = Downgrade[k + 1]
         /\ Tail(script) = SubSeq(Downgrade, k + 2, 40) /\ Len(script) = 40 - k
<1>1. Downgrade \in Seq(Steps) /\ Len(Downgrade) = 40
  BY Zenon, DowngradeIs
<1>2. k < 40 /\ k \in Nat
  OBVIOUS
<1> QED BY Zenon, <1>1, <1>2, RestOf

-----------------------------------------------------------------------------
(* In each state of a migration, the next statement is allowed. *)

LEMMA MayCreate ==
  ASSUME NEW k \in 0 .. 15, Upgrading(k, k)
  PROVE  /\ script # <<>> /\ Allowed(Head(script)) /\ Head(script) = Create(AllTables[k + 1])
         /\ Tail(script) = SubSeq(Upgrade, (k + 1) + k + 1, 32) /\ Len(script) > 1
<1>1. PICK j : j = k + k /\ j \in 0 .. 30
  OBVIOUS
<1>2. /\ script # <<>> /\ Head(script) = Upgrade[j + 1]
      /\ Tail(script) = SubSeq(Upgrade, j + 2, 32) /\ Len(script) = 32 - j
  <2>1. PICK i : i = j + 1 /\ i = k + k + 1
    BY <1>1
  <2>2. script = SubSeq(Upgrade, j + 1, 32)
    BY Zenon, <2>1 DEF Upgrading
  <2>3. j \in 0 .. 31
    BY <1>1
  <2> QED BY Zenon, <2>2, <2>3, NextUp
<1>3. j + 1 = 2 * k + 1 /\ j + 2 = (k + 1) + k + 1 /\ k + 1 \in 1 .. 16
  BY <1>1
<1>4. PICK t : t = AllTables[k + 1]
  OBVIOUS
<1>5. Head(script) = Create(t)
  BY <1>2, <1>3, <1>4, UpgradeIs
<1>6. Head(script).op = "create" /\ Head(script).table = t
  BY Zenon, <1>5, StatementsAre
<1>7. ~Has(t.name)
  <2> SUFFICES ASSUME NEW x \in tables, x.name = t.name PROVE FALSE
    BY DEF Has
  <2>1. PICK i \in 1 .. k : x = AllTables[i]
    BY DEF Upgrading, UpTo
  <2>2. AllTables[i].name = AllTables[k + 1].name /\ i \in 1 .. 16 /\ i # k + 1
    BY <1>4, <2>1
  <2> QED BY <1>3, <2>2, OwnNames
<1>8. \A name \in t.refs : Has(name)
  <2> SUFFICES ASSUME NEW name \in t.refs PROVE Has(name)
    OBVIOUS
  <2>1. PICK i \in 1 .. (k + 1) - 1 : AllTables[i].name = name
    BY <1>3, <1>4, NamedBefore
  <2>2. AllTables[i] \in tables
    BY <2>1 DEF Upgrading, UpTo
  <2> QED BY <2>1, <2>2 DEF Has
<1>9. t.enums \intersect types = {}
  BY <1>4, OneMore DEF Upgrading
<1>10. Allowed(Head(script))
  BY <1>6, <1>7, <1>8, <1>9 DEF Allowed
<1>11. Len(script) > 1
  BY <1>1, <1>2
<1> QED BY <1>2, <1>3, <1>4, <1>5, <1>10, <1>11

LEMMA MayIndex ==
  ASSUME NEW k \in 0 .. 15, Upgrading(k + 1, k)
  PROVE  /\ script # <<>> /\ Allowed(Head(script)) /\ Head(script) = Index(AllTables[k + 1])
         /\ Tail(script) = SubSeq(Upgrade, (k + 1) + (k + 1) + 1, 32)
         /\ Len(script) > 1 <=> k < 15
<1>1. PICK j : j = (k + 1) + k /\ j \in 0 .. 31
  OBVIOUS
<1>2. /\ script # <<>> /\ Head(script) = Upgrade[j + 1]
      /\ Tail(script) = SubSeq(Upgrade, j + 2, 32) /\ Len(script) = 32 - j
  <2>1. PICK i : i = j + 1 /\ i = (k + 1) + k + 1
    BY <1>1
  <2>2. script = SubSeq(Upgrade, j + 1, 32)
    BY Zenon, <2>1 DEF Upgrading
  <2>3. j \in 0 .. 31
    BY <1>1
  <2> QED BY Zenon, <2>2, <2>3, NextUp
<1>3. j + 1 = 2 * k + 2 /\ j + 2 = (k + 1) + (k + 1) + 1 /\ k + 1 \in 1 .. 16
  BY <1>1
<1>4. PICK t : t = AllTables[k + 1]
  OBVIOUS
<1>5. Head(script) = Index(t)
  BY <1>2, <1>3, <1>4, UpgradeIs
<1>6. Head(script).op = "index" /\ Head(script).table = t
  BY Zenon, <1>5, StatementsAre
<1>7. t \in tables /\ IndexesOf(t) \intersect indexes = {}
  BY <1>4, OneMore DEF Upgrading
<1>8. Allowed(Head(script))
  BY <1>6, <1>7 DEF Allowed
<1>9. Len(script) > 1 <=> k < 15
  BY <1>1, <1>2
<1> QED BY <1>2, <1>3, <1>4, <1>5, <1>8, <1>9

LEMMA MayDropIndex ==
  ASSUME NEW k \in 0 .. 15, Downgrading(k + 1, k + 1)
  PROVE  /\ script # <<>> /\ Allowed(Head(script)) /\ Head(script) = DropIndex(AllTables[k + 1])
         /\ Tail(script) = SubSeq(Downgrade, (32 - (k + 1) - k) + 1, 40) /\ Len(script) > 1
<1>1. PICK j : j = 32 - (k + 1) - (k + 1) /\ j \in 0 .. 30
  OBVIOUS
<1>2. /\ script # <<>> /\ Head(script) = Downgrade[j + 1]
      /\ Tail(script) = SubSeq(Downgrade, j + 2, 40) /\ Len(script) = 40 - j
  <2>1. PICK i : i = j + 1 /\ i = (32 - (k + 1) - (k + 1)) + 1
    BY <1>1
  <2>2. script = SubSeq(Downgrade, j + 1, 40)
    BY Zenon, <2>1 DEF Downgrading
  <2>3. j \in 0 .. 39
    BY <1>1
  <2> QED BY Zenon, <2>2, <2>3, NextDown
<1>3. PICK m \in 1 .. 16 : m = k + 1
  OBVIOUS
<1>4. j + 1 = 33 - 2 * m /\ j + 2 = (32 - (k + 1) - k) + 1
  BY <1>1, <1>3
<1>5. PICK t : t = AllTables[k + 1]
  OBVIOUS
<1>6. Head(script) = DropIndex(t)
  BY <1>2, <1>3, <1>4, <1>5, DowngradeIs
<1>7. Head(script).op = "drop index" /\ Head(script).table = t
  BY Zenon, <1>6, StatementsAre
<1>8. IndexesOf(t) \subseteq indexes
  BY <1>5, OneMore DEF Downgrading
<1>9. Allowed(Head(script))
  BY <1>7, <1>8 DEF Allowed
<1>10. Len(script) > 1
  BY <1>1, <1>2
<1> QED BY <1>2, <1>4, <1>5, <1>6, <1>9, <1>10

LEMMA MayDrop ==
  ASSUME NEW k \in 0 .. 15, Downgrading(k + 1, k)
  PROVE  /\ script # <<>> /\ Allowed(Head(script)) /\ Head(script) = Drop(AllTables[k + 1])
         /\ Tail(script) = SubSeq(Downgrade, (32 - k - k) + 1, 40) /\ Len(script) > 1
<1>1. PICK j : j = 32 - (k + 1) - k /\ j \in 0 .. 31
  OBVIOUS
<1>2. /\ script # <<>> /\ Head(script) = Downgrade[j + 1]
      /\ Tail(script) = SubSeq(Downgrade, j + 2, 40) /\ Len(script) = 40 - j
  <2>1. PICK i : i = j + 1 /\ i = (32 - (k + 1) - k) + 1
    BY <1>1
  <2>2. script = SubSeq(Downgrade, j + 1, 40)
    BY Zenon, <2>1 DEF Downgrading
  <2>3. j \in 0 .. 39
    BY <1>1
  <2> QED BY Zenon, <2>2, <2>3, NextDown
<1>3. PICK m \in 1 .. 16 : m = k + 1
  OBVIOUS
<1>4. j + 1 = 34 - 2 * m /\ j + 2 = (32 - k - k) + 1
  BY <1>1, <1>3
<1>5. PICK t : t = AllTables[m]
  OBVIOUS
<1>6. Head(script) = Drop(t)
  BY <1>2, <1>3, <1>4, <1>5, DowngradeIs
<1>7. Head(script).op = "drop" /\ Head(script).table = t
  BY Zenon, <1>6, StatementsAre
<1>8. tables = UpTo(m)
  BY <1>3 DEF Downgrading
<1>9. t \in tables
  BY <1>3, <1>5, <1>8 DEF UpTo
<1>10. ASSUME NEW i \in 1 .. m PROVE t.name \notin AllTables[i].refs
  BY <1>3, <1>5, OwnNames, NamedBefore
<1>11. \A x \in tables : t.name \notin x.refs
  BY <1>8, <1>10 DEF UpTo
<1>12. Allowed(Head(script))
  BY <1>7, <1>9, <1>11 DEF Allowed
<1>13. Len(script) > 1
  BY <1>1, <1>2
<1> QED BY <1>2, <1>3, <1>4, <1>5, <1>6, <1>12, <1>13

LEMMA MayDropType ==
  ASSUME NEW n \in 0 .. 7, Cleaning(n)
  PROVE  /\ script # <<>> /\ Allowed(Head(script)) /\ Head(script) = DropTypes[n + 1]
         /\ Head(script).op = "drop type"
         /\ Tail(script) = SubSeq(Downgrade, (32 + (n + 1)) + 1, 40)
         /\ Len(script) > 1 <=> n < 7
<1>1. PICK j : j = 32 + n /\ j \in 0 .. 39
  OBVIOUS
<1>2. /\ script # <<>> /\ Head(script) = Downgrade[j + 1]
      /\ Tail(script) = SubSeq(Downgrade, j + 2, 40) /\ Len(script) = 40 - j
  <2>1. PICK i : i = j + 1 /\ i = (32 + n) + 1
    BY <1>1
  <2>2. script = SubSeq(Downgrade, j + 1, 40)
    BY Zenon, <2>1 DEF Cleaning
  <2>3. j \in 0 .. 39
    BY <1>1
  <2> QED BY Zenon, <2>2, <2>3, NextDown
<1>3. n + 1 \in 1 .. 8 /\ j + 1 = (n + 1) + 32 /\ j + 2 = (32 + (n + 1)) + 1
  BY <1>1
<1>4. Head(script) = DropTypes[n + 1]
  BY <1>2, <1>3, DowngradeIs
<1>5. Head(script).op = "drop type"
  BY <1>3, <1>4, DropsAllTypes
<1>6. tables = {}
  BY DEF Cleaning
<1>7. Allowed(Head(script))
  BY <1>5, <1>6 DEF Allowed
<1>8. Len(script) > 1 <=> n < 7
  BY <1>1, <1>2
<1> QED BY <1>2, <1>3, <1>4, <1>5, <1>7, <1>8

LEMMA NextIsAllowed ==
  ASSUME SchemaInv, ~AtRest
  PROVE  script # <<>> /\ Allowed(Head(script)) /\ (before = Empty \/ before = Full)
<1>1. ASSUME NEW k \in 0 .. 15, Upgrading(k, k) \/ Upgrading(k + 1, k)
      PROVE  script # <<>> /\ Allowed(Head(script)) /\ before = Empty
  BY <1>1, MayCreate, MayIndex DEF Upgrading
<1>2. ASSUME NEW k \in 0 .. 15, Downgrading(k + 1, k + 1) \/ Downgrading(k + 1, k)
      PROVE  script # <<>> /\ Allowed(Head(script)) /\ before = Full
  BY <1>2, MayDropIndex, MayDrop DEF Downgrading
<1>3. ASSUME NEW n \in 0 .. 7, Cleaning(n)
      PROVE  script # <<>> /\ Allowed(Head(script)) /\ before = Full
  BY <1>3, MayDropType DEF Cleaning
<1> QED BY <1>1, <1>2, <1>3 DEF SchemaInv

-----------------------------------------------------------------------------
(* One statement of a migration, a migration that ends early, and the start   *)
(* of one keep the invariant.                                                 *)

(* What a statement leaves alone *)
LEMMA Executed ==
  ASSUME Execute, NothingRefused
  PROVE  /\ before' = before /\ NothingRefused'
         /\ script' = Tail(script)
         /\ Len(script) > 1 => version' = version
<1>1. refused' = refused /\ before' = before
  BY DEF Execute
<1>2. NothingRefused'
  BY Zenon, <1>1 DEF NothingRefused
<1>3. script' = Tail(script) /\ (Len(script) > 1 => version' = version)
  BY DEF Execute
<1> QED BY <1>1, <1>2, <1>3

LEMMA CreateStep ==
  ASSUME NEW k \in 0 .. 15, Upgrading(k, k), Execute, NothingRefused
  PROVE  SchemaInv'
<1>1. PICK t : t = AllTables[k + 1]
  OBVIOUS
<1>2. Head(script) = Create(t)
  BY <1>1, MayCreate
<1>3. Head(script).op = "create" /\ Head(script).table = t
  BY Zenon, <1>2, StatementsAre
<1>4. tables' = tables \union {t} /\ types' = types \union t.enums /\ indexes' = indexes
  BY <1>3 DEF Execute, Apply
<1>5. tables' = UpTo(k + 1) /\ types' = TypesTo(k + 1) /\ indexes' = IndexesTo(k)
  BY <1>1, <1>4, OneMore DEF Upgrading
<1>6. Upgrading(k + 1, k)'
  BY <1>5, MayCreate, Executed DEF Upgrading
<1> QED BY <1>6, Executed DEF SchemaInv

LEMMA IndexStep ==
  ASSUME NEW k \in 0 .. 15, Upgrading(k + 1, k), Execute, NothingRefused
  PROVE  SchemaInv'
<1>1. PICK t : t = AllTables[k + 1]
  OBVIOUS
<1>2. Head(script) = Index(t)
  BY <1>1, MayIndex
<1>3. Head(script).op = "index" /\ Head(script).table = t
  BY Zenon, <1>2, StatementsAre
<1>4. tables' = tables /\ types' = types /\ indexes' = indexes \union IndexesOf(t)
  BY <1>3 DEF Execute, Apply
<1>5. tables' = UpTo(k + 1) /\ types' = TypesTo(k + 1) /\ indexes' = IndexesTo(k + 1)
  BY <1>1, <1>4, OneMore DEF Upgrading
<1>6. CASE k < 15
  <2>1. Upgrading(k + 1, k + 1)'
    BY <1>5, <1>6, MayIndex, Executed DEF Upgrading
  <2>2. k + 1 \in 0 .. 15
    BY <1>6
  <2> QED BY <2>1, <2>2, Executed DEF SchemaInv
<1>7. CASE ~(k < 15)
  <2>1. k = 15
    BY <1>7
  <2>2. script' = SubSeq(Upgrade, 33, 32)
    <3>1. (k + 1) + (k + 1) + 1 = 33
      BY <2>1
    <3> QED BY <3>1, MayIndex, Executed
  <2>3. script' = <<>>
    BY <2>2, SubSeqEmpty
  <2>4. version' = "head"
    BY <1>7, MayIndex DEF Execute, Upgrading
  <2>5. tables' = UpTo(16) /\ types' = Enums /\ indexes' = IndexesTo(16)
    <3>1. k + 1 = 16
      BY <2>1
    <3> QED BY <1>5, <3>1, Whole
  <2>6. Catalog' = Full
    BY <2>4, <2>5 DEF Catalog, Full
  <2> QED BY <2>3, <2>6, Executed DEF SchemaInv, AtRest
<1> QED BY <1>6, <1>7

LEMMA DropIndexStep ==
  ASSUME NEW k \in 0 .. 15, Downgrading(k + 1, k + 1), Execute, NothingRefused
  PROVE  SchemaInv'
<1>1. PICK t : t = AllTables[k + 1]
  OBVIOUS
<1>2. Head(script) = DropIndex(t)
  BY <1>1, MayDropIndex
<1>3. Head(script).op = "drop index" /\ Head(script).table = t
  BY Zenon, <1>2, StatementsAre
<1>4. tables' = tables /\ types' = types /\ indexes' = indexes \ IndexesOf(t)
  BY <1>3 DEF Execute, Apply
<1>5. tables' = UpTo(k + 1) /\ types' = Enums /\ indexes' = IndexesTo(k)
  BY <1>1, <1>4, OneMore DEF Downgrading
<1>6. Downgrading(k + 1, k)'
  BY <1>5, MayDropIndex, Executed DEF Downgrading
<1> QED BY <1>6, Executed DEF SchemaInv

LEMMA DropStep ==
  ASSUME NEW k \in 0 .. 15, Downgrading(k + 1, k), Execute, NothingRefused
  PROVE  SchemaInv'
<1>1. PICK t : t = AllTables[k + 1]
  OBVIOUS
<1>2. Head(script) = Drop(t)
  BY <1>1, MayDrop
<1>3. Head(script).op = "drop" /\ Head(script).table = t
  BY Zenon, <1>2, StatementsAre
<1>4. tables' = tables \ {t} /\ types' = types /\ indexes' = indexes \ IndexesOf(t)
  BY <1>3 DEF Execute, Apply
<1>5. tables' = UpTo(k) /\ types' = Enums /\ indexes' = IndexesTo(k)
  BY <1>1, <1>4, OneMore DEF Downgrading
<1>6. script' = SubSeq(Downgrade, (32 - k - k) + 1, 40) /\ before' = Full /\ version' = "head"
  BY MayDrop, Executed DEF Downgrading
<1>7. CASE k # 0
  <2>1. PICK j \in 0 .. 15 : k = j + 1
    BY <1>7
  <2>2. Downgrading(k, k)'
    BY <1>5, <1>6 DEF Downgrading
  <2>3. Downgrading(j + 1, j + 1)'
    BY <2>1, <2>2
  <2> QED BY <2>3, Executed DEF SchemaInv
<1>8. CASE k = 0
  <2>1. (32 - k - k) + 1 = (32 + 0) + 1
    BY <1>8
  <2>2. Cleaning(0)'
    BY <1>5, <1>6, <1>8, <2>1, Whole DEF Cleaning
  <2> QED BY <2>2, Executed DEF SchemaInv
<1> QED BY <1>7, <1>8

LEMMA DropTypeStep ==
  ASSUME NEW n \in 0 .. 7, Cleaning(n), Execute, NothingRefused
  PROVE  SchemaInv'
<1>1. PICK e : e = DropTypes[n + 1].type
  OBVIOUS
<1>2. Head(script).op = "drop type" /\ Head(script).type = e
  BY <1>1, MayDropType
<1>3. tables' = tables /\ types' = types \ {e} /\ indexes' = indexes
  BY <1>2 DEF Execute, Apply
<1>4. DroppedTo(n + 1) = DroppedTo(n) \union {e}
  <2>1. \A i : i \in 1 .. n + 1 <=> i \in 1 .. n \/ i = n + 1
    OBVIOUS
  <2> QED BY <1>1, <2>1 DEF DroppedTo
<1>5. tables' = {} /\ types' = Enums \ DroppedTo(n + 1) /\ indexes' = {}
  BY <1>3, <1>4 DEF Cleaning
<1>6. CASE n < 7
  <2>1. Cleaning(n + 1)'
    BY <1>5, <1>6, MayDropType, Executed DEF Cleaning
  <2>2. n + 1 \in 0 .. 7
    BY <1>6
  <2> QED BY <2>1, <2>2, Executed DEF SchemaInv
<1>7. CASE ~(n < 7)
  <2>1. n + 1 = 8 /\ (32 + (n + 1)) + 1 = 41
    BY <1>7
  <2>2. script' = SubSeq(Downgrade, 41, 40)
    BY <2>1, MayDropType, Executed
  <2>3. script' = <<>>
    BY <2>2, SubSeqEmpty
  <2>4. version' = "base"
    BY <1>7, MayDropType DEF Execute, Cleaning
  <2>5. types' = {}
    BY <1>5, <2>1, DropsAllTypes
  <2>6. Catalog' = Empty
    BY <1>5, <2>4, <2>5 DEF Catalog, Empty
  <2> QED BY <2>3, <2>6, Executed DEF SchemaInv, AtRest
<1> QED BY <1>6, <1>7

LEMMA AbortStep ==
  ASSUME SchemaInv, Abort
  PROVE  SchemaInv'
<1>1. ~AtRest
  BY DEF Abort, AtRest
<1>2. Allowed(Head(script)) /\ (before = Empty \/ before = Full)
  BY <1>1, NextIsAllowed
<1>3. refused' = refused
  BY <1>2 DEF Abort
<1>4. NothingRefused'
  BY Zenon, <1>3 DEF SchemaInv, NothingRefused
<1>5. /\ tables' = before.tables /\ types' = before.types /\ indexes' = before.indexes
      /\ version' = before.version /\ script' = <<>>
  BY DEF Abort, Rollback
<1>6. Catalog' = Empty \/ Catalog' = Full
  BY <1>2, <1>5 DEF Catalog, Empty, Full
<1> QED BY <1>4, <1>5, <1>6 DEF SchemaInv, AtRest

LEMMA StartStep ==
  ASSUME SchemaInv, Start("base", Upgrade) \/ Start("head", Downgrade)
  PROVE  SchemaInv'
<1>1. script = <<>> /\ Catalog' = Catalog /\ before' = Catalog /\ refused' = refused
  BY DEF Start, Catalog
<1>2. NothingRefused'
  BY Zenon, <1>1 DEF SchemaInv, NothingRefused
<1>3. AtRest
  BY <1>1, NextIsAllowed
<1>4. CASE Start("base", Upgrade)
  <2>1. Catalog = Empty
    BY <1>3, <1>4 DEF AtRest, Start, Catalog, Full, Empty
  <2>2. tables' = {} /\ types' = {} /\ indexes' = {} /\ version' = "base"
    BY <1>1, <2>1 DEF Catalog, Empty
  <2>3. script' = SubSeq(Upgrade, 1, 32)
    <3>1. Upgrade \in Seq(Statements) /\ Len(Upgrade) = 32 /\ script' = Upgrade
      BY Zenon, <1>4, UpgradeIs DEF Start
    <3> QED BY Zenon, <3>1, SubSeqFull
  <2>4. Upgrading(0, 0)'
    <3>1. 0 + 0 + 1 = 1
      OBVIOUS
    <3> QED BY Zenon, <1>1, <2>1, <2>2, <2>3, <3>1, Whole DEF Upgrading
  <2> QED BY <1>2, <2>4 DEF SchemaInv
<1>5. CASE Start("head", Downgrade)
  <2>1. Catalog = Full
    BY <1>3, <1>5 DEF AtRest, Start, Catalog, Full, Empty
  <2>2. tables' = UpTo(16) /\ types' = Enums /\ indexes' = IndexesTo(16) /\ version' = "head"
    BY <1>1, <2>1 DEF Catalog, Full
  <2>3. script' = SubSeq(Downgrade, 1, 40)
    <3>1. Downgrade \in Seq(Steps) /\ Len(Downgrade) = 40 /\ script' = Downgrade
      BY Zenon, <1>5, DowngradeIs DEF Start
    <3> QED BY Zenon, <3>1, SubSeqFull
  <2>4. Downgrading(16, 16)'
    <3>1. (32 - 16 - 16) + 1 = 1
      OBVIOUS
    <3> QED BY Zenon, <1>1, <2>1, <2>2, <2>3, <3>1 DEF Downgrading
  <2>5. Downgrading(15 + 1, 15 + 1)'
    <3>1. 15 + 1 = 16
      OBVIOUS
    <3> QED BY Zenon, <2>4, <3>1
  <2> QED BY <1>2, <2>5 DEF SchemaInv
<1> QED BY <1>4, <1>5

LEMMA SchemaKept == SchemaSpec => []SchemaInv
<1>1. SchemaInit => SchemaInv
  <2> SUFFICES ASSUME SchemaInit PROVE SchemaInv
    OBVIOUS
  <2>1. NothingRefused
    BY Zenon DEF SchemaInit, NothingRefused
  <2>2. tables = {} /\ types = {} /\ indexes = {} /\ version = "base" /\ script = <<>>
    BY Zenon DEF SchemaInit
  <2>3. AtRest
    BY <2>2 DEF AtRest, Catalog, Empty
  <2> QED BY <2>1, <2>3 DEF SchemaInv
<1>2. SchemaInv /\ [SchemaNext]_schemaVars => SchemaInv'
  <2> SUFFICES ASSUME SchemaInv, [SchemaNext]_schemaVars PROVE SchemaInv'
    OBVIOUS
  <2>1. CASE Execute
    <3>1. ~AtRest
      BY <2>1 DEF Execute, AtRest
    <3> QED BY <2>1, <3>1, CreateStep, IndexStep, DropIndexStep, DropStep, DropTypeStep DEF SchemaInv
  <2>2. CASE Start("base", Upgrade) \/ Start("head", Downgrade)
    BY <2>2, StartStep
  <2>3. CASE Abort
    BY <2>3, AbortStep
  <2>4. CASE UNCHANGED schemaVars
    BY Zenon, <2>4 DEF schemaVars, SchemaInv, AtRest, Upgrading, Downgrading, Cleaning, Catalog,
       NothingRefused
  <2> QED BY <2>1, <2>2, <2>3, <2>4 DEF SchemaNext
<1> QED BY <1>1, <1>2, PTL DEF SchemaSpec

(* Whatever migrations are run, and wherever they are cut short, the database *)
(* refuses no statement (upgrade, downgrade).                                 *)
THEOREM NoStatementRefused == SchemaSpec => []NothingRefused
<1>1. SchemaInv => NothingRefused
  BY DEF SchemaInv
<1> QED BY <1>1, SchemaKept, PTL

(* Between migrations the catalog is all of one version (env.py: one          *)
(* transaction for the statements and the version).                           *)
THEOREM CatalogIsWhole == SchemaSpec => []WholeVersions
<1>1. SchemaInv => WholeVersions
  <2> SUFFICES ASSUME SchemaInv, script = <<>> PROVE WholeVersions
    BY DEF WholeVersions
  <2>1. AtRest
    BY NextIsAllowed
  <2> QED BY <2>1, Whole DEF AtRest, Catalog, Empty, Full, WholeVersions
<1> QED BY <1>1, SchemaKept, PTL

=============================================================================
