---------------------------- MODULE MCQueryCache ----------------------------
(***************************************************************************)
(* Instances of QueryCache: one enquiry and its customer, each on file or  *)
(* still to be made, and a tab that writes and goes from page to page.     *)
(*                                                                         *)
(* The whole of that is too large, and the views depend on each other only *)
(* through what a page mounts.  So a behaviour of SceneSpec is one scene:  *)
(* the tab goes between a few pages, changes of one kind are made, by it   *)
(* or by a colleague, and two views are loaded.  A GET of another view     *)
(* begins where the page that mounts it does, and is not answered.         *)
(***************************************************************************)
EXTENDS QueryCache

CONSTANTS enquiry, customer

QEnquiries == {enquiry}
QCustomers == {customer}
QCustomerOf == [j \in QEnquiries |-> customer]

ASSUME CacheAssumption

List(name) == <<name, Every, Every>>
Card(panel) == <<"job-card", enquiry, panel>>

AtList(name) == <<name, Every>>
AtCard == <<"job-card", enquiry>>
AtForm == <<"new", customer>>

Scene(pages, views, writes, most) ==
  [pages |-> pages, views |-> views, writes |-> writes, most |-> most]

FirstScene ==
  Scene({AtList("dashboard"), AtCard}, {List("dashboard"), Card(Every)}, {"transition"}, 1)

Scenes ==
  {FirstScene,
   Scene({AtList("board"), <<"job-line", enquiry>>},
         {List("board"), <<"job-line", enquiry, Every>>}, {"transition"}, 2),
   Scene({AtCard, AtList("board")}, {Card(Every), Card("notes")}, {"note"}, 2),
   Scene({AtCard}, {Card(Every), Card("attachments")}, {"file"}, 1),
   Scene({AtCard}, {Card(Every), Card("quotations")}, {"upload"}, 1),
   Scene({AtForm, AtList("job-cards"), AtCard}, {List("job-cards"), Card(Every)},
         {"create", "lines"}, 2),
   Scene({AtForm, AtList("board"), AtCard}, {List("board"), Card(Every)}, {"create", "lines"}, 2),
   Scene({AtList("new"), AtForm, <<"client", customer>>},
         {List("clients"), <<"client", customer, Every>>}, {"client", "contact"}, 1)}

VARIABLES
  scene,    \* what this behaviour is about
  writes    \* writes sent, and colleagues' changes

sceneVars == <<cacheVars, scene, writes>>

SceneInit == CacheInit /\ scene \in Scenes /\ here \in scene.pages /\ writes = 0

Written ==
  /\ writes < scene.most /\ writes' = writes + 1
  /\ \E what \in scene.writes, x \in {enquiry, customer} :
       Colleague(what, x) \/ \E s \in Slots : Send(s, what, x)

Unwritten ==
  /\ UNCHANGED writes
  /\ \/ \E p \in scene.pages : Visit(p)
     \/ \E v \in scene.views :
          BeginLoad(v) \/ ReadNext(v) \/ Arrive(v) \/ LoadFails(v) \/ Forget(v)
     \/ RefreshAll
     \/ \E s \in Slots :
          ServeWrite(s) \/ WriteFails(s) \/ Hear(s) \/ HearClient(s) \/ HearFailure(s)

SceneNext == (Written \/ Unwritten) /\ UNCHANGED scene

SceneSpec == SceneInit /\ [][SceneNext]_sceneVars
=============================================================================
