---- MODULE Deployment ----
(***************************************************************************)
(* One deployment: processes of the same program over one database, its    *)
(* users, and requests that run concurrently.                              *)
(* FlowReload and SystemCaches are about the processes, Sessions and       *)
(* Administration about the requests they serve.                           *)
(***************************************************************************)
CONSTANTS
  Requests,  \* requests on whichever process, concurrent
  Users,     \* keys of directus_users
  Nodes      \* processes
====
