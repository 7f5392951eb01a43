------------------------------ MODULE Discovery ------------------------------
(***************************************************************************)
(* The attribute table of a GATT server and what the four discoveries find *)
(* in it (ble_gatt_server.c).                                              *)
(*                                                                         *)
(* Attributes have the handles 1, 2, ... in the order of the table.  Of an *)
(* attribute the model keeps what a discovery tells apart: its part in its *)
(* service, the UUID of a service, and whether the UUID it has as its type *)
(* and the one it holds as its value are wide, of 128 bits.                *)
(***************************************************************************)
EXTENDS Naturals, FiniteSets, SequencesExt

CONSTANTS
    Services, \* the application's: [uuid, wide, chars], chars a sequence of
              \* [wide, cccd]: notifies or indicates, and so has a CCCD
    Mtu       \* m_att_mtu

ASSUME MtuAssumption == Mtu \in Nat /\ Mtu >= 23
ASSUME ServicesAssumption ==
    Services \in Seq([uuid : {Services[i].uuid : i \in DOMAIN Services},
                      wide : BOOLEAN,
                      chars : Seq([wide : BOOLEAN, cccd : BOOLEAN])])

\* The end of every range that is not bounded.
MaxHandle == 65535
Handles == 1 .. MaxHandle

NoUuid == "no UUID"
Attr(part, uuid, wideType, wideValue) ==
    [part |-> part, uuid |-> uuid, wideType |-> wideType, wideValue |-> wideValue]

Service(uuid, wide) == Attr("service", uuid, FALSE, wide)
Declaration(wide) == Attr("characteristic", NoUuid, FALSE, wide)
Value(wide) == Attr("value", NoUuid, wide, FALSE)
Cccd == Attr("cccd", NoUuid, FALSE, FALSE)

\* gatt_build_fixed_attrs: GAP with its name and appearance, and GATT.
Fixed ==
    <<Service("GAP", FALSE), Declaration(FALSE), Value(FALSE),
      Declaration(FALSE), Value(FALSE), Service("GATT", FALSE)>>

\* gatt_add_characteristic and gatt_add_service.
CharacteristicAttrs(c) ==
    <<Declaration(c.wide), Value(c.wide)>> \o (IF c.cccd THEN <<Cccd>> ELSE <<>>)

ServiceAttrs(s) ==
    <<Service(s.uuid, s.wide)>>
        \o FlattenSeq([i \in DOMAIN s.chars |-> CharacteristicAttrs(s.chars[i])])

\* ble_gatt_server_init
Table == Fixed \o FlattenSeq([i \in DOMAIN Services |-> ServiceAttrs(Services[i])])

ASSUME TableAssumption == Len(Table) <= MaxHandle

IsService(h) == Table[h].part = "service"

\* att_service_end_handle
ServiceEnd(h) ==
    LET later == {g \in h + 1 .. Len(Table) : IsService(g)}
    IN  IF later = {} THEN Len(Table)
        ELSE (CHOOSE g \in later : \A k \in later : g <= k) - 1

-----------------------------------------------------------------------------
(***************************************************************************)
(* Requests and responses.                                                 *)
(***************************************************************************)

Discoveries == {"services", "servicesByUuid", "characteristics", "descriptors"}
Uuids == {NoUuid, "GAP", "GATT"} \cup {Services[i].uuid : i \in DOMAIN Services}

\* A request for what there is from first to last.
Ask(kind, uuid, first, last) ==
    [kind |-> kind, uuid |-> uuid, first |-> first, last |-> last]
Asks == [kind : Discoveries, uuid : Uuids, first : Handles, last : Handles]

\* An entry of a response; one that is no service ends where it begins.
Entries == [handle : 1 .. Len(Table), end : 1 .. Len(Table)]
Entry(kind, h) ==
    [handle |-> h,
     end |-> IF kind \in {"services", "servicesByUuid"} THEN ServiceEnd(h) ELSE h]

\* The attributes a request is after.
Wanted(ask, h) ==
    /\ ask.first <= h /\ h <= ask.last
    /\ CASE ask.kind = "services"        -> IsService(h)
         [] ask.kind = "servicesByUuid"  -> IsService(h) /\ Table[h].uuid = ask.uuid
         [] ask.kind = "characteristics" -> Table[h].part = "characteristic"
         [] OTHER                        -> TRUE

AllWanted(ask) == {h \in 1 .. Len(Table) : Wanted(ask, h)}

\* The i-th smallest number of S.
Nth(S, i) == CHOOSE x \in S : Cardinality({y \in S : y <= x}) = i

\* An entry carries a wide UUID.
Wide(kind, h) ==
    CASE kind \in {"services", "characteristics"} -> Table[h].wideValue
      [] kind = "servicesByUuid"                  -> FALSE
      [] OTHER                                    -> Table[h].wideType

\* The length of an entry, and of what comes before the first.
EntryLen(kind, wide) ==
    CASE kind = "services"        -> IF wide THEN 20 ELSE 6
      [] kind = "servicesByUuid"  -> 4
      [] kind = "characteristics" -> IF wide THEN 21 ELSE 7
      [] OTHER                    -> IF wide THEN 18 ELSE 4
HeaderLen(kind) == IF kind = "servicesByUuid" THEN 1 ELSE 2

\* att_handle_read_by_group_type, att_handle_find_by_type_value,
\* att_handle_read_by_type and att_handle_find_info: the entries of one length,
\* that of the first, as many as the response holds.
Alike(ask, first) ==
    {h \in AllWanted(ask) : Wide(ask.kind, h) = Wide(ask.kind, first)}

Fitting(ask, first) ==
    (Mtu - HeaderLen(ask.kind)) \div EntryLen(ask.kind, Wide(ask.kind, first))

Response(ask, first) ==
    LET alike == Alike(ask, first)
        n == Cardinality(alike)
    IN  [i \in 1 .. IF Fitting(ask, first) < n THEN Fitting(ask, first) ELSE n
            |-> Entry(ask.kind, Nth(alike, i))]

-----------------------------------------------------------------------------
(***************************************************************************)
(* What a discovery should find.                                           *)
(***************************************************************************)

\* The entries report all that the request is after.
Reported(ask, entries) ==
    \A h \in AllWanted(ask) : \E i \in DOMAIN entries : entries[i].handle = h

\* No entry of another length lies between two of the same.
Grouped(ask) ==
    \A h, j \in AllWanted(ask) :
        Wide(ask.kind, h) = Wide(ask.kind, j) =>
            \A i \in AllWanted(ask) :
                h < i /\ i < j => Wide(ask.kind, i) = Wide(ask.kind, h)
=============================================================================
