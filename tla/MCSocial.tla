------------------------------ MODULE MCSocial ------------------------------
(* Interchangeable users, friendships, tokens and handlers.                  *)
EXTENDS Social, TLC

MCSymmetry == Permutations(User) \cup Permutations(FriendshipId)
                \cup Permutations(DeviceToken) \cup Permutations(Handler)

=============================================================================
