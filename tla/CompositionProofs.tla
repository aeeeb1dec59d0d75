--------------------------- MODULE CompositionProofs ---------------------------
(***************************************************************************)
(* The parts of the control plane side by side: every behaviour of them is *)
(* one of each part, so that what is proved of a part holds there too, and *)
(* with it the types of all their rows, requests and pages.                *)
(***************************************************************************)
EXTENDS MCControlPlane, ControlPlaneProofs, DataProofs, PageProofs, TLAPS

-----------------------------------------------------------------------------
(* A step of the composition is one part's, and the others rest.           *)

LEMMA PartsBegin ==
  ControlPlaneInit =>
    /\ DomainInit /\ PolicyInit /\ IncidentInit /\ MemberInit /\ DataInit /\ EnvInit
    /\ DeliveryInit /\ DatabaseInit /\ AccessInit /\ ProjectInit /\ PageInit /\ DialogsInit
BY DEF ControlPlaneInit

LEMMA TablesStep ==
  [ControlPlaneNext]_controlVars =>
    /\ [DomainNext]_domainVars /\ [PolicyNext]_policyVars /\ [IncidentNext]_incidentVars
    /\ [MemberNext]_memberVars /\ [DataNext]_dataVars /\ [EnvNext]_envVars
    /\ [DeliveryNext]_deliveryVars
BY DEF ControlPlaneNext, TablesNext, Steps, controlVars, tableVars

LEMMA ServersStep ==
  [ControlPlaneNext]_controlVars =>
    /\ [DatabaseNext]_databaseVars /\ [AccessNext]_accessVars /\ [ProjectNext]_projectVars
    /\ [PageNext]_pageVars /\ [DialogsNext]_dialogsVars
BY DEF ControlPlaneNext, Steps, PageNext, controlVars, apiVars

\* Every behaviour of the control plane is one of each of its parts, which share
\* no table that another one writes.
THEOREM PartsOfControlPlane ==
  ControlPlaneSpec =>
    /\ DomainSpec /\ PolicySpec /\ IncidentSpec /\ MemberSpec /\ DataSpec /\ EnvSpec
    /\ DeliverySpec /\ DatabaseSpec /\ AccessSpec /\ ProjectSpec /\ PageSpec /\ DialogsSpec
BY PartsBegin, TablesStep, ServersStep, PTL
   DEF ControlPlaneSpec, DomainSpec, PolicySpec, IncidentSpec, MemberSpec, DataSpec, EnvSpec,
       DeliverySpec, DatabaseSpec, AccessSpec, ProjectSpec, PageSpec, DialogsSpec

\* What is proved of each part holds of them side by side: hostnames, the policy,
\* owners, the data, variables, applications, pushes, databases and the pages.
THEOREM ControlPlaneHolds ==
  ControlPlaneSpec =>
    /\ [](HostnamesAgree /\ PolicyIsTrue /\ OwnerRemains /\ DataHolds)
    /\ [](BuildsWithStored /\ MadeAsProject /\ AcceptedIsQueued /\ DatabasesStand)
    /\ [](ShowsHistory /\ HeardIsShown /\ OpeningsKeepApart)
    /\ IncidentsMoveForward /\ ActsAsGranted
BY PartsOfControlPlane, ServedHostnamesAgree, PolicyIsTrueAlways, AnOwnerRemains, DataHoldsAlways,
   BuildsUseStored, MadeAsProjectAlways, AcceptedPushesAreQueued, DatabasesStandAlways,
   ShowsHistoryAlways, HeardIsShownAlways, OpeningsKeepApartAlways, IncidentsForward,
   ActsAsGrantedAlways, PTL

\* Whichever part moves, every row, request and page keeps its type.
THEOREM ControlPlaneTypeAlways == ControlPlaneSpec => []ControlPlaneType
<1> DEFINE Typed == /\ DomainType /\ PolicyType /\ IncidentType /\ MemberType /\ DataType
                    /\ EnvType /\ DeliveryType /\ DatabaseHostType /\ AccessType
                    /\ ProjectType /\ PageType /\ DialogsType
<1>1. ControlPlaneInit => part \in Parts
  BY DEF ControlPlaneInit
<1>2. part \in Parts /\ [ControlPlaneNext]_controlVars => (part \in Parts)'
  BY DEF ControlPlaneNext, TablesNext, Steps, controlVars
<1>3. part \in Parts /\ Typed => ControlPlaneType
  BY DEF Parts, Tables, ControlPlaneType
<1>4. IncidentInv /\ MemberInv /\ EnvInv /\ DeliveryInv /\ RouteInv =>
        IncidentType /\ MemberType /\ EnvType /\ DeliveryType /\ DomainType
  BY DEF IncidentInv, MemberInv, EnvInv, DeliveryInv, RouteInv
<1> HIDE DEF Typed
<1>5. ControlPlaneSpec => []Typed
  BY <1>4, PartsOfControlPlane, IncidentInvariant, MemberAlways, EnvAlways, DeliveryAlways,
     DomainAlways, PolicyTypeAlways, DataTypeAlways, DatabaseTypeAlways, AccessTypeAlways,
     ProjectTypeAlways, PageTypeAlways, DialogsTypeAlways, PTL DEF Typed
<1> QED BY <1>1, <1>2, <1>3, <1>5, PTL DEF ControlPlaneSpec
=============================================================================
