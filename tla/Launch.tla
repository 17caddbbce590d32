------------------------------- MODULE Launch -------------------------------
(***************************************************************************)
(* run's treatment of a PE file from its headers to the payload's calls    *)
(* (src/src/fat32.c:270-452): the file is loaded and its main is searched, *)
(* then the surroundings are built, then the payload runs.  The loader's   *)
(* steps are over when the manifold's begin, and the manifold leaves the   *)
(* program in virtual_ram alone.                                           *)
(***************************************************************************)
EXTENDS Loader, Manifold

launchVars == <<loaderVars, vars>>

LaunchInit == LoaderInit /\ Init

LoadProgram == result = 0 /\ LoaderNext /\ UNCHANGED vars

(* A call of an imported function goes through a patched slot, whose stub  *)
(* hands its name to StaticIatTrap.                                        *)
Imported(api) == \E a \in DOMAIN ram : ram[a].kind = "stub" /\ pool[ram[a].n] = api
Surround ==
  /\ result # 0 /\ Next /\ UNCHANGED loaderVars
  /\ called' # called /\ called'.what = "import" => Imported(called'.api)

LaunchNext == LoadProgram \/ Surround

LaunchSpec == LaunchInit /\ [][LaunchNext]_launchVars
==============================================================================
