-------------------------- MODULE MCProxySwapchain --------------------------
(* Two images and two presents, so that the game runs out of images and     *)
(* one image comes back to be used again.  (The code asks for three or    *)
(* more; the count matters only for running out.)                           *)
EXTENDS ProxySwapchain

MCTwoImages == {1, 2}
MCOnePlan == {<<1, TRUE>>}
MCPresent == {"present"}
=============================================================================
