------------------------------- MODULE Clients -------------------------------
(***************************************************************************)
(* One reader of the server at a time: a tab of the web client with its    *)
(* tables (WebTables), or a phone with the explorer (Explorer), while the  *)
(* server stores more rows.                                                *)
(***************************************************************************)
EXTENDS WebTables

CONSTANTS
    Devices,      \* the devices that are looked at: "tab", "phone"
    Institutions, All, PAGE_SIZE, SharedCache

\* The page of the explorer is not larger than the server allows.
ASSUME ExplorerAssumption == PAGE_SIZE \in 1..MaxPageSize

VARIABLES device, institution, pages, fetch, cached

Phone == INSTANCE Explorer WITH published <- List

app == <<institution, pages, fetch, cached>>

ClientsInit ==
    /\ device \in Devices
    /\ Init
    /\ device = "phone" => route = CHOOSE r \in Routes : TRUE
    /\ Phone!Init

TabStep == device = "tab" /\ TabNext /\ UNCHANGED app

PhoneStep == device = "phone" /\ Phone!Next /\ UNCHANGED vars

ServerStep == ServerNext /\ UNCHANGED app

ClientsNext == (TabStep \/ PhoneStep \/ ServerStep) /\ UNCHANGED device

ClientsSpec == ClientsInit /\ [][ClientsNext]_<<vars, app, device>>

\* See Explorer.
ScrollShowsTheList == Phone!ScrollShowsTheList

=============================================================================
