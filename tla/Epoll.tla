-------------------------------- MODULE Epoll --------------------------------
(***************************************************************************)
(* co_epoll (co_epoll.cpp) over the kernel's epoll: the library's own map  *)
(* from descriptors to items, and the interest list of the kernel, which   *)
(* holds in data.ptr the item that was added.  A closed descriptor leaves  *)
(* the second and not the first.                                           *)
(***************************************************************************)
CONSTANTS
  Fds,          \* file descriptors
  NoFd,         \* the descriptor -1
  NoCo          \* no item

VARIABLES
  item_map,     \* item_map_: [Fds -> items \cup {NoCo}]
  interest      \* [Fds -> items \cup {NoCo}], in the kernel

epoll == <<item_map, interest>>

EpollInit ==
  /\ item_map = [f \in Fds |-> NoCo]
  /\ interest = [f \in Fds |-> NoCo]

(***************************************************************************)
(* add refuses a descriptor that is in item_map_; register_event ignores   *)
(* its result.                                                             *)
(***************************************************************************)
EpollAdd(fd, item) ==
  IF fd # NoFd /\ item_map[fd] = NoCo
  THEN /\ item_map' = [item_map EXCEPT ![fd] = item]
       /\ interest' = [interest EXCEPT ![fd] = item]
  ELSE UNCHANGED epoll

\* Mutant: the kernel forgets the descriptor and item_map_ does not.
EpollDelKeepsMap(fd) ==
  /\ interest' = [f \in Fds |-> IF f = fd THEN NoCo ELSE interest[f]]
  /\ UNCHANGED item_map

\* del is by descriptor, whoever added it.
EpollDel(fd) ==
  IF fd # NoFd /\ item_map[fd] # NoCo
  THEN /\ item_map' = [item_map EXCEPT ![fd] = NoCo]
       /\ interest' = [interest EXCEPT ![fd] = NoCo]
  ELSE UNCHANGED epoll

\* The kernel drops a descriptor that is closed.
EpollClosed(fd) ==
  /\ interest' = [interest EXCEPT ![fd] = NoCo]
  /\ UNCHANGED item_map

=============================================================================
