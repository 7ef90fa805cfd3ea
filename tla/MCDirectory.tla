----------------------------- MODULE MCDirectory -----------------------------
(* A category that is removed while a product gets it, a customer that is  *)
(* removed while it buys, and three sales that are read while they commit. *)
EXTENDS Directory

CONSTANTS food, drink, n1, tea, ann, bob, phone, s1, s2, s3,
          newCategory, dropFood, newTea, newBob, dropBob, history, walk

MCRow == (newCategory :> drink) @@ (dropFood :> food) @@ (newTea :> tea)
         @@ (newBob :> bob) @@ (dropBob :> bob)
         @@ (s1 :> ann) @@ (s2 :> ann) @@ (s3 :> bob) @@ (history :> ann)
MCNames == (newCategory :> {n1, food}) @@ (newBob :> {phone, ann})
MCTogether == {{newCategory, dropFood, newTea},
               {newBob, dropBob, s1, s3, history},
               {s1, s2, s3, walk}}
MCTarget == newTea :> food
MCTotal == (s1 :> 1) @@ (s2 :> 2) @@ (s3 :> 4)
MCId == (s1 :> 2) @@ (s2 :> 1) @@ (s3 :> 3)
===============================================================================
