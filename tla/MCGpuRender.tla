---------------------------- MODULE MCGpuRender ----------------------------
EXTENDS GpuRender, TLC

\* Safety runs only: files, threads and contexts are interchangeable.
MCSymmetry == Permutations(Files) \cup Permutations(Threads)
                \cup Permutations(Contexts)

=============================================================================
