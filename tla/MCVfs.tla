------------------------------- MODULE MCVfs -------------------------------
EXTENDS Vfs, TLC

(* Files in a directory; files while ramfs is mounted a second time; and   *)
(* devices that come and go while devfs is mounted and unmounted.          *)
MCClients ==
    {[mkdirs  |-> {<<"/", "a">>, <<"/", "a", "..">>},
      opens   |-> {<<"/", "a">>, <<"/", "a", "b">>},
      flags   |-> {{}, {"O_CREAT", "O_APPEND"}, {"O_TRUNC"}},
      mounts  |-> {},
      devices |-> {}],
     [mkdirs  |-> {<<"/">>},
      opens   |-> {<<"/", "a">>},
      flags   |-> {{"O_CREAT", "O_APPEND"}, {"O_CREAT", "O_TRUNC"}},
      mounts  |-> {<< <<"/", "a">>, "ramfs" >>},
      devices |-> {}],
     [mkdirs  |-> {},
      opens   |-> {<<"/", "dev">>, <<"/", "dev", "tty">>, <<"/", "dev", "vda", "..">>},
      flags   |-> {{}},
      mounts  |-> {<< <<"/", "dev">>, "devfs" >>},
      devices |-> {"tty", "vda"}]}
MCBuffers == {<<1, 2>>}
Symmetry == Permutations(Handles)
=============================================================================
